---- MODULE Spec2Model ----
(***************************************************************************)
(* UNFS (User Space Nameless Filesystem): a model of src/unfs.c, the       *)
(* rwlock variant of the library (unfs.lock, unfs.dev).  The in-memory     *)
(* header, free bitmap and name index, and the device pages holding the    *)
(* header, the bitmap and the file entries, are the state; every facade    *)
(* function is one action.  The geometry is scaled down: the page size,    *)
(* the width of a bitmap word, the device size, the number of data         *)
(* segments of a file and the depth of the delete stack are small.         *)
(***************************************************************************)
EXTENDS Integers, Sequences, FiniteSets, TLC

\* ---------------------------------------------------------------- bounds
\* log2 of the number of bytes in a page (UNFS_PAGESHIFT is 12 in the source)
PageShift == 2
\* bits in a bitmap word (the source uses u32 words)
WordBits == 4
\* pages on the device (header->pagecount)
PageCount == 14
\* first page after the header page and the bitmap pages (header->datapage)
DataPage == 2
\* data segments a file entry can hold (UNFS_MAXDS in the source)
MaxDS == 2
\* depth of the delete stack (header->delmax)
DelMax == 1
\* cap on the open count of one node
MaxOpen == 1
\* largest file, in pages, asked of resize and write
MaxPages == 3
\* pages an I/O buffer holds at most (dev.qpac), and pages of the device
\* area a file read or written byte by byte lies in
MaxIo == 2
RwDev == 4
\* log2 of the width of the u32 page count of an I/O buffer (32 in the source)
U32Bits == 5

\* ------------------------------------------------------------- constants
\* pages of one file entry: node page and name page
UNFS_FILEPC == 2
\* page address of the header
UNFS_HEADPA == 0

\* UNFS_PAGESIZE
PageSize == 2 ^ PageShift

\* number of pages the bitmap covers, and number of bitmap words
DataPages == PageCount - DataPage
MapSize == (DataPages + WordBits - 1) \div WordBits

\* PAGECOUNT(len): byte length to page count
PAGECOUNT(len) == (len + PageSize - 1) \div PageSize

\* -------------------------------------------------------------- names
\* A name is a sequence of characters; "/" separates the components.
Root == <<"/">>
NameA == <<"/", "a">>
NameB == <<"/", "b">>
NameAB == <<"/", "a", "/", "b">>
NameU == {Root, NameA, NameB, NameAB}
\* a name unfs_node_add rejects ("?" stands for a character not printable)
NameBad == <<"/", "?">>

\* strchr(s + from - 1, '/') != 0 for the 1-based position from
HasSlashFrom(s, from) == \E k \in from..Len(s) : s[k] = "/"

\* strrchr(s, '/'): position of the last '/', 0 if none
LastSlash(s) ==
    IF \E k \in 1..Len(s) : s[k] = "/"
    THEN CHOOSE k \in 1..Len(s) : s[k] = "/" /\ \A j \in (k+1)..Len(s) : s[j] # "/"
    ELSE 0

unfs_child_of(child, parent) ==
    LET clen == Len(child)
        plen == Len(parent)
    IN  IF clen <= plen THEN FALSE
        ELSE IF plen = 1 THEN ~HasSlashFrom(child, 2)
        ELSE /\ child[plen + 1] = "/"
             /\ SubSeq(child, 1, plen) = parent
             /\ ~HasSlashFrom(child, plen + 2)

\* --------------------------------------------------------------- bitmap
\* The bitmap is the set of page offsets (page address - datapage) whose
\* bit is set; bit b of word i is offset i * WordBits + b.
Bit(map, i, b) == (i * WordBits + b) \in map
WordBitsOf(i) == {i * WordBits + b : b \in 0..(WordBits - 1)}
WordZero(map, i) == WordBitsOf(i) \cap map = {}
WordFull(map, i) == WordBitsOf(i) \subseteq map

unfs_map_count(map) == Cardinality({o \in map : o < MapSize * WordBits})

unfs_map_check(map, pageid, pagecount) ==
    IF pageid < DataPage \/ pageid >= PageCount THEN 1
    ELSE IF \E o \in (pageid - DataPage)..(pageid - DataPage + pagecount - 1) : o \notin map
         THEN 1 ELSE 0

\* the marking loop of unfs_map_use: err is set when a bit was already set;
\* the bits marked before that stay marked
RECURSIVE map_use_loop(_, _, _, _)
map_use_loop(map, i, bit, pc) ==
    IF pc = 0 THEN [err |-> FALSE, map |-> map]
    ELSE IF bit = 0
    THEN IF pc > WordBits
         THEN IF ~WordZero(map, i) THEN [err |-> TRUE, map |-> map]
              ELSE map_use_loop(map \cup WordBitsOf(i), i + 1, 0, pc - WordBits)
         ELSE LET mask == {i * WordBits + b : b \in 0..(pc - 1)}
              IN  IF mask \cap map # {} THEN [err |-> TRUE, map |-> map]
                  ELSE [err |-> FALSE, map |-> map \cup mask]
    ELSE IF Bit(map, i, bit) THEN [err |-> TRUE, map |-> map]
         ELSE IF pc = 1 THEN [err |-> FALSE, map |-> map \cup {i * WordBits + bit}]
              ELSE IF bit + 1 = WordBits
                   THEN map_use_loop(map \cup {i * WordBits + bit}, i + 1, 0, pc - 1)
                   ELSE map_use_loop(map \cup {i * WordBits + bit}, i, bit + 1, pc - 1)

\* the clearing loop of unfs_map_free: err is the FATAL of a bit found clear
RECURSIVE map_free_loop(_, _, _, _)
map_free_loop(map, i, bit, pc) ==
    IF pc = 0 THEN [err |-> FALSE, map |-> map]
    ELSE IF bit = 0
    THEN IF pc > WordBits
         THEN IF ~WordFull(map, i) THEN [err |-> TRUE, map |-> map]
              ELSE map_free_loop(map \ WordBitsOf(i), i + 1, 0, pc - WordBits)
         ELSE LET mask == {i * WordBits + b : b \in 0..(pc - 1)}
              IN  IF ~(mask \subseteq map) THEN [err |-> TRUE, map |-> map]
                  ELSE [err |-> FALSE, map |-> map \ mask]
    ELSE IF ~Bit(map, i, bit) THEN [err |-> TRUE, map |-> map]
         ELSE IF pc = 1 THEN [err |-> FALSE, map |-> map \ {i * WordBits + bit}]
              ELSE IF bit + 1 = WordBits
                   THEN map_free_loop(map \ {i * WordBits + bit}, i + 1, 0, pc - 1)
                   ELSE map_free_loop(map \ {i * WordBits + bit}, i, bit + 1, pc - 1)

\* while (map[mapnextfree] == 0xffffffff) mapnextfree++; the words after
\* the last bitmap word are the zero padding of the bitmap page
RECURSIVE NextFree(_, _)
NextFree(map, i) ==
    IF i < MapSize /\ WordFull(map, i) THEN NextFree(map, i + 1) ELSE i

\* the search loop of unfs_map_alloc; mapidx = -1 while no run is started
RECURSIVE map_alloc_loop(_, _, _, _, _, _)
map_alloc_loop(map, pagecount, i, pc, mapidx, mapbit) ==
    IF ~(pc > 0 /\ i < MapSize)
    THEN [i |-> i, mapidx |-> mapidx, mapbit |-> mapbit]
    ELSE IF WordZero(map, i)
    THEN LET mi == IF mapidx = -1 THEN i ELSE mapidx
             mb == IF mapidx = -1 THEN 0 ELSE mapbit
             pc2 == IF pc >= WordBits THEN pc - WordBits ELSE 0
         IN  IF pc2 = 0 THEN [i |-> i, mapidx |-> mi, mapbit |-> mb]
             ELSE map_alloc_loop(map, pagecount, i + 1, pc2, mi, mb)
    ELSE IF mapidx = -1
    THEN LET width == IF pc < WordBits THEN pc ELSE WordBits
             top(k) == IF k + width < WordBits THEN k + width ELSE WordBits
             Clear(k) == \A b \in k..(top(k) - 1) : ~Bit(map, i, b)
             k == CHOOSE j \in 0..WordBits : Clear(j) /\ \A h \in 0..(j - 1) : ~Clear(h)
         IN  IF k < WordBits
             THEN LET found == WordBits - k
                      pc2 == IF found < pc THEN pc - found ELSE 0
                  IN  map_alloc_loop(map, pagecount, i + 1, pc2, i, k)
             ELSE map_alloc_loop(map, pagecount, i + 1, pc, -1, k)
    ELSE IF pc < WordBits /\ \A b \in 0..(pc - 1) : ~Bit(map, i, b)
         THEN [i |-> i, mapidx |-> mapidx, mapbit |-> mapbit]
         ELSE map_alloc_loop(map, pagecount, i, pagecount, -1, mapbit)

\* ---------------------------------------------------------------- state
\* width of the u64 counters of the header and of a node (2^64 in the source)
U64 == 65536
Dec(x, n) == (x - n + U64) % U64
Inc(x, n) == (x + n) % U64

\* The machine state handed from step to step of a handler:
\*   hdr, map, mnf        unfs.header (fields and bitmap), unfs.mapnextfree
\*   heap, tree           the unfs_node_t objects by address, and the addresses
\*                        linked in the name index unfs.root
\*   init, nopen          unfs.header != NULL, unfs.open
\*   dhdr, dmap, dent     device: header page, bitmap pages, entry slots
\*   proc                 "run", or "aborted" after FATAL or a fault
ZeroHdr == [ver |-> FALSE, fdpage |-> 0, fdcount |-> 0, dircount |-> 0,
            mapuse |-> 0, delstack |-> <<>>]

\* the entry slots: FILEPC pages each, from the top of the device downward
SlotPages == {p \in DataPage..(PageCount - UNFS_FILEPC) : (PageCount - p) % UNFS_FILEPC = 0}

Blank == [kind |-> "blank"]
Junk == [kind |-> "junk"]

\* unfs_cleanup: the index is destroyed and the unfs object is zeroed
CleanMem(S) == [S EXCEPT !.hdr = ZeroHdr, !.map = {}, !.mnf = 0, !.heap = <<>>,
                         !.tree = {}, !.init = FALSE, !.nopen = 0]

\* FATAL(): unfs_cleanup() and abort(); a fault ends the process as well
Fatal(S) == [CleanMem(S) EXCEPT !.proc = "aborted"]

Running(S) == S.proc = "run"

\* unfs.dev.write(ioc, unfs.header, UNFS_HEADPA, 1)
WriteHeader(S) ==
    IF Running(S) THEN [S EXCEPT !.dhdr = [kind |-> "hdr", h |-> S.hdr]] ELSE S

\* a write of FILEPC pages at pa: an entry slot, or the header and bitmap pages
WriteEntry(S, pa, e) ==
    IF ~Running(S) THEN S
    ELSE IF pa \in SlotPages THEN [S EXCEPT !.dent[pa] = e]
    ELSE IF pa = UNFS_HEADPA THEN [S EXCEPT !.dhdr = Junk, !.dmap = Junk]
    ELSE Fatal(S)

\* file data written to the pages pgs overwrites the entries stored there
WriteData(S, pgs) ==
    IF ~Running(S) THEN S
    ELSE [S EXCEPT !.dent = [p \in SlotPages |->
        IF {p, p + 1} \cap pgs # {} THEN Junk ELSE S.dent[p]]]

\* Where a state carries the bytes of the pages (field data), the writes of
\* file data are followed byte by byte.  The byte memset() fills with, and
\* the byte the caller's buffer holds:
FillByte == 5
DataByte == 7

HasData(S) == Running(S) /\ "data" \in DOMAIN S

\* memset(iop + from, byte, n) on page pa, written back to the device
PutBytes(S, pa, from, n, byte) ==
    IF ~HasData(S) THEN S
    ELSE IF pa \notin DOMAIN S.data THEN S
    ELSE [S EXCEPT !.data[pa] = [j \in 1..PageSize |->
                                    IF j > from /\ j <= from + n THEN byte ELSE @[j]]]

\* memset(iop, *fill, pc << UNFS_PAGESHIFT) written to addpc pages from pageid
RECURSIVE FillData(_, _, _)
FillData(S, pageid, addpc) ==
    IF addpc = 0 THEN S
    ELSE FillData(PutBytes(S, pageid, 0, PageSize, FillByte), pageid + 1, addpc - 1)

SegPages(ds) == UNION {d.pageid..(d.pageid + d.pagecount - 1) : d \in {ds[k] : k \in 1..Len(ds)}}

unfs_map_use(S, pageid, pagecount) ==
    IF pageid < DataPage THEN [s |-> Fatal(S), err |-> TRUE]
    ELSE LET K(r) ==
                 IF r.err THEN [s |-> [S EXCEPT !.map = r.map], err |-> TRUE]
                 ELSE [s |-> [S EXCEPT !.map = r.map,
                                       !.mnf = NextFree(r.map, S.mnf),
                                       !.dmap = [kind |-> "map", bits |-> r.map],
                                       !.hdr.mapuse = Inc(@, pagecount)],
                       err |-> FALSE]
         IN  K(map_use_loop(S.map, (pageid - DataPage) \div WordBits,
                            (pageid - DataPage) % WordBits, pagecount))

unfs_map_free(S, pageid, pagecount) ==
    IF ~Running(S) THEN S
    ELSE IF pageid < DataPage THEN Fatal(S)
    ELSE LET mapidx == (pageid - DataPage) \div WordBits
             K(r) ==
                 IF r.err THEN Fatal(S)
                 ELSE [S EXCEPT !.map = r.map,
                                !.mnf = IF S.mnf > mapidx THEN mapidx ELSE S.mnf,
                                !.dmap = [kind |-> "map", bits |-> r.map],
                                !.hdr.mapuse = Dec(@, pagecount)]
         IN  K(map_free_loop(S.map, mapidx, (pageid - DataPage) % WordBits, pagecount))

\* unfs_map_alloc: v is the page address of the run found, 0 if there is none
unfs_map_alloc(S, pagecount) ==
    LET U(pageid) ==
            LET V(u) == IF u.err THEN [s |-> Fatal(S), v |-> 0]
                        ELSE [s |-> u.s, v |-> pageid]
            IN  V(unfs_map_use(S, pageid, pagecount))
        K(r) == IF r.i >= MapSize THEN [s |-> S, v |-> 0]
                ELSE U(DataPage + r.mapidx * WordBits + r.mapbit)
    IN  K(map_alloc_loop(S.map, pagecount, S.mnf, pagecount, -1, -1))

\* ---------------------------------------------------------------- nodes
NULL == 0

NewNode(name, parent, pageid, parentid, size, isdir, ds) ==
    [name |-> name, parent |-> parent, pageid |-> pageid, parentid |-> parentid,
     size |-> size, isdir |-> isdir, open |-> 0, ds |-> ds, freed |-> FALSE]

\* the entry unfs_node_sync builds from a node
EntryOf(n) == [kind |-> "entry", name |-> n.name, pageid |-> n.pageid,
               parentid |-> n.parentid, size |-> n.size, isdir |-> n.isdir,
               ds |-> n.ds]

unfs_node_sync(S, id) ==
    IF ~Running(S) THEN S
    ELSE IF id = NULL THEN Fatal(S)
    ELSE WriteEntry(S, S.heap[id].pageid, EntryOf(S.heap[id]))

unfs_node_find(S, name) ==
    IF \E i \in S.tree : S.heap[i].name = name
    THEN CHOOSE i \in S.tree : S.heap[i].name = name
    ELSE NULL

unfs_node_find_parent(S, name) ==
    IF LastSlash(name) = 0 THEN NULL
    ELSE IF LastSlash(name) = 1 THEN unfs_node_find(S, Root)
    ELSE unfs_node_find(S, SubSeq(name, 1, LastSlash(name) - 1))

\* tsearch: a node whose name is already in the index is not linked
tsearch(S, id) ==
    IF \E i \in S.tree : S.heap[i].name = S.heap[id].name THEN S
    ELSE [S EXCEPT !.tree = @ \cup {id}]

\* malloc: the lowest address not in use
Malloc(S) == CHOOSE i \in 1..(Cardinality(DOMAIN S.heap) + 1) : i \notin DOMAIN S.heap

HeapPut(heap, id, n) == [i \in DOMAIN heap \cup {id} |-> IF i = id THEN n ELSE heap[i]]

\* free(nodep): the memory keeps its contents; it is dropped from the
\* model once no pointer refers to it (Collect)
Free(S, id) == [S EXCEPT !.heap[id].freed = TRUE, !.tree = @ \ {id}]

\* unfs_node_alloc: v is the page address of the new entry slot, 0 if none
unfs_node_alloc(S, dir) ==
    IF Len(S.hdr.delstack) > 0
    THEN [s |-> WriteHeader([S EXCEPT
                   !.hdr.delstack = SubSeq(@, 1, Len(@) - 1),
                   !.hdr.fdcount = Inc(@, 1),
                   !.hdr.dircount = IF dir THEN Inc(@, 1) ELSE @]),
          v |-> S.hdr.delstack[Len(S.hdr.delstack)]]
    ELSE LET K(u) ==
                 IF u.err THEN [s |-> u.s, v |-> 0]
                 ELSE [s |-> WriteHeader([u.s EXCEPT
                                !.hdr.fdpage = @ - UNFS_FILEPC,
                                !.hdr.fdcount = Inc(@, 1),
                                !.hdr.dircount = IF dir THEN Inc(@, 1) ELSE @]),
                       v |-> S.hdr.fdpage]
         IN  K(unfs_map_use(S, S.hdr.fdpage, UNFS_FILEPC))

\* unfs_map_free of every segment of ds, first to last
RECURSIVE FreeSegs(_, _)
FreeSegs(S, ds) ==
    IF ds = <<>> \/ ~Running(S) THEN S
    ELSE FreeSegs(unfs_map_free(S, Head(ds).pageid, Head(ds).pagecount), Tail(ds))

\* unfs_node_update_children: every node whose parent pointer is the
\* relocated node takes its new page address and is written to its slot
RECURSIVE SyncChildren(_, _, _)
SyncChildren(S, ids, parentid) ==
    IF ids = {} \/ ~Running(S) THEN S
    ELSE LET K(c) == SyncChildren(unfs_node_sync([S EXCEPT !.heap[c].parentid = parentid], c),
                                  ids \ {c}, parentid)
         IN  K(CHOOSE i \in ids : TRUE)

\* dev is the device implementation: the UNVMe one ends the process when a
\* second buffer is asked of an I/O context that holds one, the raw one
\* does not
unfs_node_update_children(S, parent, dev) ==
    IF ~\E i \in S.tree : S.heap[i].parent = parent THEN S
    ELSE IF dev = "unvme" THEN Fatal(S)
    ELSE SyncChildren(S, {i \in S.tree : S.heap[i].parent = parent}, S.heap[parent].pageid)

\* the last branch of unfs_node_remove: F is the state after the bits of
\* delpage were cleared; the entry read at lastpage is moved to delpage
Relocate(F, lastpage, delpage, isdir, dev) ==
    IF ~Running(F) THEN F
    ELSE IF lastpage \notin SlotPages THEN Fatal(F)
    ELSE IF F.dent[lastpage].kind # "entry" THEN Fatal(F)
    ELSE LET M(X, lastnode) ==
                 IF isdir THEN unfs_node_update_children(X, lastnode, dev) ELSE X
             K(lastnode) ==
                 IF lastnode = NULL THEN Fatal(F)
                 ELSE M(WriteEntry([F EXCEPT !.hdr.fdpage = lastpage,
                                             !.heap[lastnode].pageid = delpage],
                                   delpage, [F.dent[lastpage] EXCEPT !.pageid = delpage]),
                        lastnode)
         IN  K(unfs_node_find(F, F.dent[lastpage].name))

\* RemoveSlot as it would be if every slot went on the delete stack
RemoveSlotPush(S, delpage, isdir, dev) ==
    IF ~Running(S) THEN S
    ELSE [S EXCEPT !.hdr.delstack = Append(@, delpage)]

\* the three ways unfs_node_remove disposes of the entry slot of nodep
RemoveSlot(S, delpage, isdir, dev) ==
    IF ~Running(S) THEN S
    ELSE IF delpage = S.hdr.fdpage + UNFS_FILEPC
    THEN LET K(F) == IF Running(F) THEN [F EXCEPT !.hdr.fdpage = delpage] ELSE F
         IN  K(unfs_map_free(S, delpage, UNFS_FILEPC))
    ELSE IF Len(S.hdr.delstack) < DelMax
    THEN [S EXCEPT !.hdr.delstack = Append(@, delpage)]
    ELSE Relocate(unfs_map_free(S, delpage, UNFS_FILEPC),
                  S.hdr.fdpage + UNFS_FILEPC, delpage, isdir, dev)

\* unfs_node_remove.  ub chooses what the use of a freed parent node does:
\* "fault" ends the process, "stale" finds the memory as it was left.
unfs_node_remove(S, id, ub, dev) ==
    IF S.heap[id].parent = NULL THEN Fatal(S)
    ELSE IF S.heap[S.heap[id].parent].freed /\ ub = "fault" THEN Fatal(S)
    ELSE LET K(S4) ==
                 IF ~Running(S4) THEN S4
                 ELSE Free(WriteHeader([S4 EXCEPT
                              !.hdr.fdcount = Dec(@, 1),
                              !.hdr.dircount = IF S.heap[id].isdir THEN Dec(@, 1) ELSE @]), id)
         IN  K(RemoveSlot(
                 FreeSegs(unfs_node_sync([S EXCEPT !.tree = @ \ {id},
                                                   !.heap[S.heap[id].parent].size = Dec(@, 1)],
                                         S.heap[id].parent),
                          IF S.heap[id].isdir THEN <<>> ELSE S.heap[id].ds),
                 S.heap[id].pageid, S.heap[id].isdir, dev))

\* the name checks of unfs_node_add: printable, leading '/', no trailing '/'
ValidName(name) ==
    /\ Len(name) >= 1
    /\ name[1] = "/"
    /\ \A k \in 2..Len(name) : name[k] # "?"
    /\ ~(Len(name) > 1 /\ name[Len(name)] = "/")

\* unfs_node_add: v is the address of the new node, NULL for an invalid name
unfs_node_add(S, parent, n) ==
    IF ~ValidName(n.name) THEN [s |-> S, v |-> NULL]
    ELSE IF /\ parent # NULL
            /\ \/ ~unfs_child_of(n.name, S.heap[parent].name)
               \/ (n.pageid # 0 /\ S.heap[parent].pageid # 0
                     /\ n.parentid # S.heap[parent].pageid)
    THEN [s |-> Fatal(S), v |-> NULL]
    ELSE LET K(id) ==
                 [s |-> tsearch([S EXCEPT !.heap = HeapPut(@, id,
                                    NewNode(n.name, parent, n.pageid, n.parentid, n.size,
                                            n.isdir, IF n.isdir THEN <<>> ELSE n.ds))], id),
                  v |-> id]
         IN  K(Malloc(S))

\* unfs_node_create: v is the new node, NULL if there is no parent or no slot.
\* The result of unfs_node_add is not tested: for an invalid name the size
\* of the parent is incremented and written, and unfs_node_sync then reads
\* the fields of the null pointer, which ends the process.
unfs_node_create(S, name, isdir) ==
    LET F(S3, id) == [s |-> S3, v |-> IF Running(S3) THEN id ELSE NULL]
        B(b, parent) ==
            IF ~Running(b.s) THEN b
            ELSE IF b.v = NULL
            THEN [s |-> Fatal(unfs_node_sync(
                            [b.s EXCEPT !.heap[parent].size = Inc(@, 1)], parent)),
                  v |-> NULL]
            ELSE F(unfs_node_sync(unfs_node_sync(
                       [b.s EXCEPT !.heap[parent].size = Inc(@, 1)], parent), b.v), b.v)
        A(a, parent) ==
            IF ~Running(a.s) \/ a.v = 0 THEN [s |-> a.s, v |-> NULL]
            ELSE B(unfs_node_add(a.s, parent,
                       [name |-> name, pageid |-> a.v,
                        parentid |-> a.s.heap[parent].pageid,
                        size |-> 0, isdir |-> isdir, ds |-> <<>>]), parent)
        P(parent) ==
            IF parent = NULL THEN [s |-> S, v |-> NULL]
            ELSE A(unfs_node_alloc(S, isdir), parent)
    IN  P(unfs_node_find_parent(S, name))

\* ------------------------------------------------------------ file data
\* the device page holding page index k (from 0) of the segment list ds,
\* -1 when the list does not reach that far
RECURSIVE PageAt(_, _)
PageAt(ds, k) ==
    IF ds = <<>> THEN -1
    ELSE IF k < Head(ds).pagecount THEN Head(ds).pageid + k
    ELSE PageAt(Tail(ds), k - Head(ds).pagecount)

RECURSIVE TotalPages(_)
TotalPages(ds) == IF ds = <<>> THEN 0 ELSE Head(ds).pagecount + TotalPages(Tail(ds))

\* a name overwritten by the bytes of a data segment
Garbage == <<"?">>

\* unfs_node_merge_ds as it would be without its copy loop
CopyNone(S, ds, pa, k) == S

\* the copy loop of unfs_node_merge_ds: page k of the file is read and
\* written to pa + k
RECURSIVE CopyPages(_, _, _, _)
CopyPages(S, ds, pa, k) ==
    IF ~HasData(S) \/ k >= TotalPages(ds) THEN S
    ELSE IF {PageAt(ds, k), pa + k} \subseteq DOMAIN S.data
    THEN CopyPages([S EXCEPT !.data[pa + k] = S.data[PageAt(ds, k)]], ds, pa, k + 1)
    ELSE CopyPages(S, ds, pa, k + 1)

\* unfs_node_merge_ds
unfs_node_merge_ds(S, id, newsize) ==
    LET F(S2, pageid) ==
            IF ~Running(S2) THEN [s |-> S2, err |-> "FATAL"]
            ELSE [s |-> WriteHeader([S2 EXCEPT !.heap[id].ds =
                            <<[pageid |-> pageid, pagecount |-> PAGECOUNT(newsize)]>>]),
                  err |-> "OK"]
        K(a) ==
            IF ~Running(a.s) THEN [s |-> a.s, err |-> "FATAL"]
            ELSE IF a.v = 0 THEN [s |-> a.s, err |-> "ENOSPC"]
            ELSE F(FreeSegs(CopyPages(WriteData(a.s, a.v..(a.v + TotalPages(S.heap[id].ds) - 1)),
                                      S.heap[id].ds, a.v, 0),
                            S.heap[id].ds), a.v)
    IN  K(unfs_map_alloc(S, PAGECOUNT(newsize)))

\* The shrink loop of unfs_node_resize: segments are freed from the last
\* one.  With no segment left the loop steps below ds[0], into the fields
\* size, isdir and dscount of the node, then into pageid and parentid: the
\* page address it frees then lies beyond the bitmap.
RECURSIVE ShrinkSegs(_, _, _)
ShrinkSegs(S, id, delpc) ==
    IF delpc = 0 \/ ~Running(S) THEN S
    ELSE IF Len(S.heap[id].ds) = 0 THEN Fatal(S)
    ELSE LET d == S.heap[id].ds[Len(S.heap[id].ds)]
         IN  IF d.pagecount > delpc
             THEN unfs_map_free([S EXCEPT !.heap[id].ds[Len(S.heap[id].ds)].pagecount
                                              = @ - delpc],
                                d.pageid + d.pagecount - delpc, delpc)
             ELSE ShrinkSegs([unfs_map_free(S, d.pageid, d.pagecount)
                                  EXCEPT !.heap[id].ds = SubSeq(@, 1, Len(@) - 1)],
                             id, delpc - d.pagecount)

\* the new pages of a growing file are filled when fill is given
FillPages(S, fill, pageid, addpc) ==
    IF fill THEN FillData(WriteData(S, pageid..(pageid + addpc - 1)), pageid, addpc) ELSE S

\* the growth branch of unfs_node_resize, up to the fill of the new pages
GrowSegs(S, id, oldsize, newsize, fill) ==
    LET n == S.heap[id]
        nds == Len(S.heap[id].ds)
        addpc == PAGECOUNT(newsize) - PAGECOUNT(oldsize)
        Add(a) ==
            IF ~Running(a.s) THEN [s |-> a.s, err |-> "FATAL"]
            ELSE IF a.v = 0 THEN [s |-> a.s, err |-> "ENOSPC"]
            ELSE [s |-> FillPages(
                            [a.s EXCEPT
                               !.heap[id].ds =
                                   IF nds > 0 /\ a.v = n.ds[nds].pageid + n.ds[nds].pagecount
                                   THEN [n.ds EXCEPT ![nds].pagecount = @ + addpc]
                                   ELSE Append(n.ds, [pageid |-> a.v, pagecount |-> addpc]),
                               !.heap[id].name = IF n.isdir THEN Garbage ELSE @],
                            fill, a.v, addpc),
                  err |-> "OK"]
        Merged(m) ==
            IF m.err # "OK" THEN m
            ELSE [s |-> FillPages(m.s, fill,
                                  m.s.heap[id].ds[1].pageid + PAGECOUNT(oldsize), addpc),
                  err |-> "OK"]
        K(S0) ==
            IF ~Running(S0) THEN [s |-> S0, err |-> "FATAL"]
            ELSE IF addpc <= 0 THEN [s |-> S0, err |-> "OK"]
            ELSE IF nds < MaxDS THEN Add(unfs_map_alloc(S0, addpc))
            ELSE Merged(unfs_node_merge_ds(S0, id, newsize))
    IN  K(IF fill /\ oldsize % PageSize # 0
          THEN IF nds = 0 THEN Fatal(S)
               ELSE PutBytes(WriteData(S, {n.ds[nds].pageid + n.ds[nds].pagecount - 1}),
                             n.ds[nds].pageid + n.ds[nds].pagecount - 1,
                             oldsize % PageSize, PageSize - (oldsize % PageSize), FillByte)
          ELSE S)

\* unfs_node_resize
unfs_node_resize(S, id, newsize, fill) ==
    LET K(g) ==
            IF ~Running(g.s) THEN [s |-> g.s, err |-> "FATAL"]
            ELSE IF g.err # "OK" THEN g
            ELSE [s |-> WriteHeader(unfs_node_sync(
                            [g.s EXCEPT !.heap[id].size = newsize], id)),
                  err |-> "OK"]
    IN  IF S.heap[id].size = newsize THEN [s |-> S, err |-> "OK"]
        ELSE IF newsize > S.heap[id].size
        THEN K(GrowSegs(S, id, S.heap[id].size, newsize, fill))
        ELSE K([s |-> ShrinkSegs(S, id, PAGECOUNT(S.heap[id].size) - PAGECOUNT(newsize)),
                err |-> "OK"])

\* --------------------------------------------------------------- facade
Ret(S, code) == IF Running(S) THEN [S EXCEPT !.ret = code] ELSE [S EXCEPT !.ret = "ABORT"]

\* open modes
UNFS_OPEN_RW == {}
UNFS_OPEN_CREATE == {"create"}
UNFS_OPEN_EXCLUSIVE == {"exclusive"}

\* unfs_file_open as it would be if it did not look at UNFS_OPEN_EXCLUSIVE
FileOpenShared(S, name, mode) ==
    LET C(c) == IF ~Running(c.s) \/ c.v = NULL THEN Ret(Fatal(c.s), "ABORT")
                ELSE Ret([c.s EXCEPT !.heap[c.v].open = @ + 1], "OK")
        K(nodep) ==
            IF nodep # NULL THEN Ret([S EXCEPT !.heap[nodep].open = @ + 1], "OK")
            ELSE IF "create" \notin mode THEN Ret(S, "ENOENT")
            ELSE C(unfs_node_create(S, name, FALSE))
    IN  K(unfs_node_find(S, name))

unfs_file_open(S, name, mode) ==
    LET C(c) == IF ~Running(c.s) \/ c.v = NULL THEN Ret(Fatal(c.s), "ABORT")
                ELSE Ret([c.s EXCEPT !.heap[c.v].open = @ + 1], "OK")
        K(nodep) ==
            IF nodep # NULL
            THEN IF "exclusive" \in mode /\ S.heap[nodep].open > 0 THEN Ret(S, "EBUSY")
                 ELSE Ret([S EXCEPT !.heap[nodep].open = @ + 1], "OK")
            ELSE IF "create" \notin mode THEN Ret(S, "ENOENT")
            ELSE C(unfs_node_create(S, name, FALSE))
    IN  K(unfs_node_find(S, name))

unfs_file_close(S, id) ==
    IF S.heap[id].open > 0 THEN Ret([S EXCEPT !.heap[id].open = @ - 1], "OK")
    ELSE Ret(S, "EINVAL")

unfs_file_resize(S, id, newsize, fill) ==
    IF S.heap[id].open > 0 THEN Ret(unfs_node_resize(S, id, newsize, fill).s, "OK")
    ELSE Ret(S, "EINVAL")

\* the pages a transfer of len bytes at offset goes to; -1 stands for a
\* page taken from beyond the segment array
RwPages(ds, offset, len) ==
    {PageAt(ds, k) : k \in (offset \div PageSize)..((offset + len - 1) \div PageSize)}

\* the bytes of the caller's buffer written to bytes offset.. of the file
RECURSIVE PutFile(_, _, _, _)
PutFile(S, ds, offset, len) ==
    IF len = 0 THEN S
    ELSE PutFile(PutBytes(S, PageAt(ds, offset \div PageSize), offset % PageSize, 1, DataByte),
                 ds, offset + 1, len - 1)

\* unfs_node_rw, as far as the entries on the device are concerned.  ub
\* chooses what the read of a segment beyond ds[dscount-1] gives: "fault"
\* an address that ends the process, "stale" a data page once used.
NodeRwDev(S, id, offset, len, wflag, ub) ==
    IF len = 0 \/ ~Running(S) THEN S
    ELSE IF -1 \in RwPages(S.heap[id].ds, offset, len) /\ ub = "fault" THEN Fatal(S)
    ELSE IF wflag THEN PutFile(WriteData(S, RwPages(S.heap[id].ds, offset, len) \ {-1}),
                               S.heap[id].ds, offset, len)
    ELSE S

\* offset + len is a sum of u64
unfs_file_read(S, id, offset, len, ub) ==
    IF S.heap[id].open > 0 /\ (offset + len) % U64 <= S.heap[id].size
    THEN Ret(NodeRwDev(S, id, offset, len, FALSE, ub), "OK")
    ELSE Ret(S, "EINVAL")

unfs_file_write(S, id, offset, len, ub) ==
    LET K(r) == IF r.err # "OK" THEN Ret(r.s, r.err)
                ELSE Ret(NodeRwDev(r.s, id, offset, len, TRUE, ub), "OK")
    IN  IF S.heap[id].open = 0 THEN Ret(S, "EINVAL")
        ELSE IF (offset + len) % U64 > S.heap[id].size
        THEN K(unfs_node_resize(S, id, (offset + len) % U64, FALSE))
        ELSE K([s |-> S, err |-> "OK"])

\* the prefixes of name that unfs_create visits with pflag set
Prefixes(name) ==
    IF Len(name) = 1 THEN <<>> ELSE
    [k \in 1..Cardinality({j \in 2..(Len(name) + 1) : j = Len(name) + 1 \/ name[j] = "/"}) |->
        LET ends == {j \in 2..(Len(name) + 1) : j = Len(name) + 1 \/ name[j] = "/"}
            e == CHOOSE j \in ends : Cardinality({h \in ends : h < j}) = k - 1
        IN  SubSeq(name, 1, e - 1)]

\* unfs_create as it would be if it did not look the name up first
RECURSIVE CreateAnew(_, _, _, _)
CreateAnew(S, paths, k, isdir) ==
    LET K(c) == IF ~Running(c.s) THEN Ret(c.s, "ABORT")
                ELSE IF c.v = NULL THEN Ret(c.s, "ENOMEM")
                ELSE CreateAnew(c.s, paths, k + 1, isdir)
    IN  IF k > Len(paths) THEN Ret(S, "OK")
        ELSE K(unfs_node_create(S, paths[k], IF k < Len(paths) THEN TRUE ELSE isdir))

RECURSIVE CreatePath(_, _, _, _)
CreatePath(S, paths, k, isdir) ==
    LET K(c) == IF ~Running(c.s) THEN Ret(c.s, "ABORT")
                ELSE IF c.v = NULL THEN Ret(c.s, "ENOMEM")
                ELSE CreatePath(c.s, paths, k + 1, isdir)
    IN  IF k > Len(paths) THEN Ret(S, "OK")
        ELSE IF \E i \in S.tree : S.heap[i].name = paths[k]
        THEN CreatePath(S, paths, k + 1, isdir)
        ELSE K(unfs_node_create(S, paths[k], IF k < Len(paths) THEN TRUE ELSE isdir))

unfs_create(S, name, isdir, pflag) ==
    CreatePath(S, IF pflag THEN Prefixes(name) ELSE <<name>>, 1, isdir)

unfs_remove(S, name, isdir, ub, dev) ==
    LET K(nodep) ==
            IF nodep = NULL THEN Ret(S, "ENOENT")
            ELSE IF S.heap[nodep].isdir # isdir THEN Ret(S, "ENOENT")
            ELSE IF S.heap[nodep].open > 0 \/ (isdir /\ S.heap[nodep].size # 0)
            THEN Ret(S, "EBUSY")
            ELSE Ret(unfs_node_remove(S, nodep, ub, dev), "OK")
    IN  IF Len(name) = 1 THEN Ret(S, "EINVAL") ELSE K(unfs_node_find(S, name))

\* The second half of unfs_rename: the node is unlinked, renamed, linked
\* again and written, and the sizes of the two parents are adjusted.
\* newid is the address of the node after realloc; ub chooses what the use
\* of freed node memory does ("fault" or "stale").
RenameParents(S5, srcparent, dstparent, ub) ==
    IF ~Running(S5) \/ srcparent = dstparent THEN S5
    ELSE IF srcparent = NULL THEN Fatal(S5)
    ELSE IF ub = "fault" /\ S5.heap[srcparent].freed THEN Fatal(S5)
    ELSE LET K(S7) == unfs_node_sync([S7 EXCEPT !.heap[dstparent].size = Inc(@, 1)],
                                     dstparent)
         IN  K(unfs_node_sync([S5 EXCEPT !.heap[srcparent].size = Dec(@, 1)], srcparent))

RenameLink(S2, newid, srcparent, dstparent, dst, ub) ==
    IF ub = "fault" /\ S2.heap[dstparent].freed THEN Fatal(S2)
    ELSE RenameParents(
             unfs_node_sync(tsearch([S2 EXCEPT !.heap[newid].name = dst,
                                               !.heap[newid].parent = dstparent,
                                               !.heap[newid].parentid = S2.heap[dstparent].pageid,
                                               !.heap[newid].freed = FALSE], newid), newid),
             srcparent, dstparent, ub)

RenameMove(R, srcnode, srcparent, dstparent, dst, ub, moved) ==
    IF ~Running(R) THEN R
    ELSE IF ub = "fault" /\ R.heap[srcnode].freed THEN Fatal(R)
    ELSE IF /\ Len(dst) > Len(R.heap[srcnode].name)
            /\ moved
            /\ ~R.heap[srcnode].freed
            /\ \/ dstparent = srcnode
               \/ \E i \in R.tree \ {srcnode} : R.heap[i].parent = srcnode
    THEN RenameLink([R EXCEPT !.tree = @ \ {srcnode},
                              !.heap = [HeapPut(@, Malloc(R), R.heap[srcnode])
                                           EXCEPT ![srcnode].freed = TRUE]],
                    Malloc(R), srcparent, dstparent, dst, ub)
    ELSE RenameLink([R EXCEPT !.tree = @ \ {srcnode}], srcnode, srcparent, dstparent,
                    dst, ub)

\* unfs_rename.  dev is the device implementation: on the EEXIST path the
\* I/O context is released twice, which ends the process on UNVMe.
unfs_rename(S, src, dst, override, ub, dev, moved) ==
    LET Busy(i) == S.heap[i].open > 0 \/ (S.heap[i].isdir /\ S.heap[i].size # 0)
        K(srcnode, dstparent, dstnode) ==
            IF srcnode = NULL THEN Ret(S, "ENOENT")
            ELSE IF Busy(srcnode) THEN Ret(S, "EBUSY")
            ELSE IF dstparent = NULL THEN Ret(S, "EINVAL")
            ELSE IF dstnode # NULL /\ ~override
            THEN IF dev = "unvme" THEN Ret(Fatal(S), "ABORT") ELSE Ret(S, "EEXIST")
            ELSE IF dstnode # NULL /\ Busy(dstnode) THEN Ret(S, "EBUSY")
            ELSE Ret(RenameMove(IF dstnode # NULL
                                THEN unfs_node_remove(S, dstnode, ub, dev) ELSE S,
                                srcnode, S.heap[srcnode].parent, dstparent,
                                dst, ub, moved), "OK")
    IN  IF Len(src) = 1 THEN Ret(S, "EINVAL")
        ELSE K(unfs_node_find(S, src), unfs_node_find_parent(S, dst),
               unfs_node_find(S, dst))

\* The calls of unfs.dev.ioc_alloc ("alloc") and unfs.dev.ioc_free ("free")
\* that a call makes, in order, on the path it takes from state S.
IocOfNodeCreate(S, name) ==
    IF unfs_node_find_parent(S, name) = NULL THEN <<>> ELSE <<"alloc", "free">>

IocOfRemove(S, name, isdir) ==
    LET K(nodep) ==
            IF nodep = NULL THEN <<>>
            ELSE IF S.heap[nodep].isdir # isdir THEN <<>>
            ELSE IF S.heap[nodep].open > 0 \/ (S.heap[nodep].isdir /\ S.heap[nodep].size # 0)
            THEN <<>>
            ELSE <<"alloc", "free">>
    IN  IF Len(name) = 1 THEN <<>> ELSE K(unfs_node_find(S, name))

IocOfRename(S, src, dst, override) ==
    LET Busy(i) == S.heap[i].open > 0 \/ (S.heap[i].isdir /\ S.heap[i].size # 0)
        K(srcnode, dstparent, dstnode) ==
            IF srcnode = NULL THEN <<"alloc", "free">>
            ELSE IF Busy(srcnode) THEN <<"alloc", "free">>
            ELSE IF dstparent = NULL THEN <<"alloc", "free">>
            ELSE IF dstnode # NULL /\ ~override THEN <<"alloc", "free", "free">>
            ELSE <<"alloc", "free">>
    IN  IF Len(src) = 1 THEN <<>>
        ELSE K(unfs_node_find(S, src), unfs_node_find_parent(S, dst),
               unfs_node_find(S, dst))

\* The calls of unfs.dev.page_alloc ("alloc") and unfs.dev.page_free
\* ("free") on the I/O context of unfs_remove, in order.  unfs_node_sync
\* makes one of each; the last branch of unfs_node_remove holds the buffer
\* it reads the last entry into while unfs_node_update_children syncs the
\* children of that entry.
BufOfSyncs(n) == [k \in 1..(2 * n) |-> IF k % 2 = 1 THEN "alloc" ELSE "free"]

BufOfRelocate(S, id, lastpage) ==
    LET K(lastnode) ==
            IF lastnode = NULL THEN <<"alloc">>
            ELSE <<"alloc">>
                 \o (IF S.heap[id].isdir
                     THEN BufOfSyncs(Cardinality({i \in S.tree \ {id} :
                                                     S.heap[i].parent = lastnode}))
                     ELSE <<>>)
                 \o <<"free">>
    IN  IF lastpage \notin SlotPages THEN <<"alloc">>
        ELSE IF S.dent[lastpage].kind # "entry" THEN <<"alloc">>
        ELSE K(unfs_node_find([S EXCEPT !.tree = @ \ {id}], S.dent[lastpage].name))

BufOfNodeRemove(S, id) ==
    BufOfSyncs(1)
    \o (IF S.heap[id].pageid = S.hdr.fdpage + UNFS_FILEPC THEN <<>>
        ELSE IF Len(S.hdr.delstack) < DelMax THEN <<>>
        ELSE BufOfRelocate(S, id, S.hdr.fdpage + UNFS_FILEPC))

BufOfRemove(S, name, isdir) ==
    LET K(nodep) ==
            IF nodep = NULL THEN <<>>
            ELSE IF S.heap[nodep].isdir # isdir THEN <<>>
            ELSE IF S.heap[nodep].open > 0 \/ (S.heap[nodep].isdir /\ S.heap[nodep].size # 0)
            THEN <<>>
            ELSE IF S.heap[nodep].parent = NULL THEN <<>>
            ELSE BufOfNodeRemove(S, nodep)
    IN  IF Len(name) = 1 THEN <<>> ELSE K(unfs_node_find(S, name))

\* ------------------------------------------------- open, close, check, format
\* unfs_init: a header buffer of zeroes is set up if there is none
unfs_init(S) == IF S.init THEN S ELSE [CleanMem(S) EXCEPT !.init = TRUE]

\* the header test of unfs_open and unfs_check, on the pages read
ValidHeader(dh, dm) ==
    /\ dh.kind = "hdr"
    /\ dm.kind = "map"
    /\ dh.h.ver
    /\ dh.h.mapuse = unfs_map_count(dm.bits)
    /\ (dh.h.fdpage + (dh.h.fdcount + Len(dh.h.delstack) + 1) * UNFS_FILEPC) % U64 = PageCount

InDelStack(h, pa) == \E d \in 1..Len(h.delstack) : h.delstack[d] = pa

\* unfs_node_add_parents: v is the node of the last prefix of name, found or
\* made as a directory without page address
RECURSIVE AddParents(_, _, _, _)
AddParents(S, paths, k, parent) ==
    LET A(a) == AddParents(a.s, paths, k + 1, a.v)
        K(found) ==
            IF found # NULL THEN AddParents(S, paths, k + 1, found)
            ELSE A(unfs_node_add(S, parent, [name |-> paths[k], pageid |-> 0,
                                             parentid |-> 0, size |-> 0, isdir |-> TRUE,
                                             ds |-> <<>>]))
    IN  IF ~Running(S) THEN [s |-> S, v |-> NULL]
        ELSE IF k >= Len(paths)
        THEN [s |-> S, v |-> IF parent = NULL THEN unfs_node_find(S, Root) ELSE parent]
        ELSE K(unfs_node_find(S, paths[k]))

unfs_node_add_parents(S, name) == AddParents(S, Prefixes(name), 1, NULL)

\* the scan loop of unfs_open: pa is the slot read next, i the entries read
RECURSIVE OpenScan(_, _, _)
OpenScan(S, pa, i) ==
    LET Add(ap, e) ==
            IF ~Running(ap.s) THEN ap.s
            ELSE OpenScan(unfs_node_add(ap.s, ap.v, e).s, pa - UNFS_FILEPC, i + 1)
        K(e, nodep) ==
            IF nodep # NULL
            THEN IF S.heap[nodep].isdir /\ S.heap[nodep].pageid = 0
                 THEN OpenScan([S EXCEPT !.heap[nodep].pageid = e.pageid,
                                         !.heap[nodep].size = e.size,
                                         !.heap[nodep].parentid = e.parentid],
                               pa - UNFS_FILEPC, i + 1)
                 ELSE Fatal(S)
            ELSE IF Len(e.name) > 1 THEN Add(unfs_node_add_parents(S, e.name), e)
            ELSE Add([s |-> S, v |-> NULL], e)
    IN  IF ~Running(S) \/ i >= S.hdr.fdcount THEN S
        ELSE IF InDelStack(S.hdr, pa) THEN OpenScan(S, pa - UNFS_FILEPC, i)
        ELSE IF pa \notin SlotPages THEN Fatal(S)
        ELSE IF S.dent[pa].kind # "entry" THEN OpenScan(S, pa - UNFS_FILEPC, i + 1)
        ELSE K(S.dent[pa], unfs_node_find(S, S.dent[pa].name))

\* unfs_open: the header and bitmap pages replace the ones in memory, and
\* the name index is built from the entry slots
unfs_open(S) ==
    LET K(S1) ==
            IF ~ValidHeader(S.dhdr, S.dmap) THEN Ret(S1, "EBADHDR")
            ELSE Ret([OpenScan([S1 EXCEPT !.mnf = NextFree(S1.map, 0)],
                               PageCount - UNFS_FILEPC, 0) EXCEPT !.hv = TRUE], "OK")
    IN  K([unfs_init(S) EXCEPT
              !.nopen = @ + 1,
              !.hdr = IF S.dhdr.kind = "hdr" THEN S.dhdr.h ELSE ZeroHdr,
              !.map = IF S.dmap.kind = "map" THEN S.dmap.bits ELSE {}])

\* unfs_close
unfs_close(S) ==
    IF S.nopen <= 1 THEN Ret([CleanMem(S) EXCEPT !.hv = FALSE], "OK")
    ELSE Ret([S EXCEPT !.nopen = @ - 1], "OK")

\* the scan loop of unfs_check over the pages of the device; its loop over
\* the segments of an entry tests ds[0] each time (dsp is not advanced)
RECURSIVE CheckScan(_, _, _, _, _)
CheckScan(h, bits, dent, pa, i) ==
    LET K(e) ==
            IF e.kind # "entry" THEN "EINVAL"
            ELSE IF unfs_map_check(bits, e.pageid, UNFS_FILEPC) = 1 THEN "EINVAL"
            ELSE IF /\ Len(e.ds) > 0
                    /\ unfs_map_check(bits, e.ds[1].pageid, e.ds[1].pagecount) = 1
            THEN "EINVAL"
            ELSE IF Len(e.name) > 1 /\ (e.parentid <= h.fdpage \/ e.parentid >= PageCount)
            THEN "EINVAL"
            ELSE IF Len(e.name) > 1 /\ e.parentid \notin SlotPages THEN "EINVAL"
            ELSE IF /\ Len(e.name) > 1
                    /\ \/ dent[e.parentid].kind # "entry"
                       \/ ~unfs_child_of(e.name, dent[e.parentid].name)
            THEN "EINVAL"
            ELSE CheckScan(h, bits, dent, pa - UNFS_FILEPC, i + 1)
    IN  IF i >= h.fdcount THEN "OK"
        ELSE IF InDelStack(h, pa) THEN CheckScan(h, bits, dent, pa - UNFS_FILEPC, i)
        ELSE IF pa \notin SlotPages THEN "FATAL"
        ELSE K(dent[pa])

\* unfs_check: the verdict on the device, then unfs_cleanup
unfs_check(S) ==
    LET K(r) == IF r = "FATAL" THEN Ret(Fatal(S), "ABORT")
                ELSE Ret([CleanMem(S) EXCEPT !.hv = FALSE], r)
    IN  IF ~ValidHeader(S.dhdr, S.dmap) THEN K("EINVAL")
        ELSE K(CheckScan(S.dhdr.h, S.dmap.bits, S.dent, PageCount - UNFS_FILEPC, 0))

\* unfs_format: delcount, the delete stack, the bitmap and the name index
\* are left as they are
unfs_format(S) ==
    LET F(S2) == IF ~Running(S2) THEN Ret(S2, "ABORT")
                 ELSE Ret([WriteHeader(S2) EXCEPT
                              !.dmap = [kind |-> "map", bits |-> S2.map]], "OK")
        K(a) == F(WriteEntry(a.s, a.v, [kind |-> "entry", name |-> Root, pageid |-> a.v,
                                        parentid |-> 0, size |-> 0, isdir |-> TRUE,
                                        ds |-> <<>>]))
    IN  K(unfs_node_alloc([unfs_init(S) EXCEPT
                              !.hdr.ver = TRUE,
                              !.hdr.fdpage = PageCount - UNFS_FILEPC,
                              !.hdr.fdcount = 0, !.hdr.dircount = 0, !.hdr.mapuse = 0],
                          TRUE))

\* ------------------------------------------- file data, byte by byte
\* unfs_node_rw on the bytes of the device.  disk maps a page address to
\* the PageSize bytes of the page, buf is the caller's buffer, iop the I/O
\* buffer; sequences are indexed from 1, so byte x of a C buffer is
\* element x + 1.
U32 == 2 ^ U32Bits
Min(a, b) == IF a < b THEN a ELSE b

\* the byte no write has set yet in a fresh I/O buffer
JunkByte == -1

\* memcpy(dst + at, src + from, n)
Memcpy(dst, at, src, from, n) ==
    [i \in 1..Len(dst) |-> IF i > at /\ i <= at + n THEN src[from + (i - at)] ELSE dst[i]]

\* unfs.dev.read(ioc, iop + at, pa, pc)
DevRead(iop, at, disk, pa, pc) ==
    [i \in 1..Len(iop) |->
        IF i > at /\ i <= at + pc * PageSize
        THEN disk[pa + ((i - at - 1) \div PageSize)][((i - at - 1) % PageSize) + 1]
        ELSE iop[i]]

\* unfs.dev.write(ioc, iop, pa, pc)
DevWrite(disk, iop, pa, pc) ==
    [p \in DOMAIN disk |->
        IF p >= pa /\ p < pa + pc
        THEN [j \in 1..PageSize |-> iop[(p - pa) * PageSize + j]]
        ELSE disk[p]]

\* u32 iopc = (len << UNFS_PAGESHIFT) + 1, cut to what page_alloc gives
Iopc(len, lim) == Min((len * PageSize + 1) % U32, lim)

\* pc of one pass of the loop, and the bytes iolen it moves
\* (RwIolenWhole is the count of a loop that does not take the offset in
\* the first page off)
RwPc(c, iopc) == Min(Min(c.pagecount, c.dspc), iopc)
RwIolenWhole(c, pc) == Min(pc * PageSize, c.len)
RwIolen(c, pc) == Min(pc * PageSize - c.byteoff, c.len)

\* the write of one pass: the first page is read when the offset is not
\* page aligned and the last page when the end is not
RwFirstN(c) == IF c.endlen # 0 /\ c.pagecount = 1 THEN c.len ELSE PageSize - c.byteoff
RwEndlen(c) == IF c.byteoff # 0 /\ c.endlen # 0 /\ c.pagecount = 1 THEN 0 ELSE c.endlen

RwHead(c, iop, buf) ==
    IF c.byteoff # 0
    THEN Memcpy(DevRead(iop, 0, c.disk, c.pa, 1), c.byteoff, buf, c.bpos, RwFirstN(c))
    ELSE iop

RwTail(c, iop, buf, pc) ==
    IF RwEndlen(c) # 0 /\ pc = c.pagecount
    THEN Memcpy(DevRead(iop, (pc - 1) * PageSize, c.disk, c.pa + pc - 1, 1),
                (pc - 1) * PageSize, buf, c.bpos + c.len - RwEndlen(c), RwEndlen(c))
    ELSE iop

RwMlen(c, pc) ==
    RwIolen(c, pc) - (IF c.byteoff # 0 THEN RwFirstN(c) ELSE 0)
                   - (IF RwEndlen(c) # 0 /\ pc = c.pagecount THEN RwEndlen(c) ELSE 0)

RwBody(c, iop, buf, pc) ==
    IF RwMlen(c, pc) # 0
    THEN Memcpy(iop, IF c.byteoff # 0 THEN PageSize ELSE 0, buf,
                c.bpos + (IF c.byteoff # 0 THEN RwFirstN(c) ELSE 0), RwMlen(c, pc))
    ELSE iop

RwWriteChunk(c, buf, pc) ==
    DevWrite(c.disk,
             RwBody(c, RwTail(c, RwHead(c, [i \in 1..(pc * PageSize) |-> JunkByte], buf),
                              buf, pc), buf, pc),
             c.pa, pc)

\* the read of one pass: memcpy(buf, iop + byteoff, iolen)
RwReadChunk(c, pc) ==
    Memcpy(c.out, c.bpos,
           DevRead([i \in 1..(pc * PageSize) |-> JunkByte], 0, c.disk, c.pa, pc),
           c.byteoff, RwIolen(c, pc))

\* the end of one pass: the position moves on in the segment or to the next
RwAdvance(c, ds, pc, iolen) ==
    IF pc < c.dspc
    THEN [c EXCEPT !.len = @ - iolen, !.pagecount = @ - pc, !.byteoff = 0,
                   !.bpos = @ + iolen, !.pa = @ + pc, !.dspc = @ - pc]
    ELSE [c EXCEPT !.len = @ - iolen, !.pagecount = @ - pc, !.byteoff = 0,
                   !.bpos = @ + iolen, !.k = @ + 1,
                   !.pa = ds[c.k + 1].pageid, !.dspc = ds[c.k + 1].pagecount]

RECURSIVE RwLoop(_, _, _, _, _)
RwLoop(c, ds, buf, iopc, wflag) ==
    LET Pass(d, pc) ==
            IF d.len = RwIolen(d, pc) THEN [d EXCEPT !.len = 0]
            ELSE RwLoop(RwAdvance(d, ds, pc, RwIolen(c, pc)), ds, buf, iopc, wflag)
    IN  IF wflag
        THEN Pass([c EXCEPT !.disk = RwWriteChunk(c, buf, RwPc(c, iopc)),
                            !.endlen = RwEndlen(c)], RwPc(c, iopc))
        ELSE Pass([c EXCEPT !.out = RwReadChunk(c, RwPc(c, iopc))], RwPc(c, iopc))

\* while (pageoff >= ds->pagecount): the segment and the page offset the
\* transfer starts in
RECURSIVE RwSkip(_, _, _)
RwSkip(ds, k, pageoff) ==
    IF pageoff >= ds[k].pagecount THEN RwSkip(ds, k + 1, pageoff - ds[k].pagecount)
    ELSE [k |-> k, pageoff |-> pageoff]

\* unfs_node_rw: the device after a write (disk), the buffer after a read
\* (out); lim is the number of pages page_alloc gives at most
unfs_node_rw(disk, ds, buf, offset, len, wflag, lim) ==
    LET K(at) ==
            RwLoop([disk |-> disk, out |-> buf, k |-> at.k,
                    pa |-> ds[at.k].pageid + at.pageoff,
                    dspc |-> ds[at.k].pagecount - at.pageoff,
                    byteoff |-> offset % PageSize,
                    pagecount |-> PAGECOUNT((offset % PageSize) + len),
                    endlen |-> ((offset % PageSize) + len) % PageSize,
                    len |-> len, bpos |-> 0],
                   ds, buf, Iopc(len, lim), wflag)
    IN  IF len = 0 THEN [disk |-> disk, out |-> buf]
        ELSE K(RwSkip(ds, 1, offset \div PageSize))

\* ------------------------------------------------------ the state machine
VARIABLES hdr, map, mnf, heap, tree, init, nopen, hv, dhdr, dmap, dent, proc, clean,
          left, rw, th

fsvars == <<hdr, map, mnf, heap, tree, init, nopen, hv, dhdr, dmap, dent, proc, clean, left>>
vars == <<fsvars, rw, th>>

\* hv: a handle returned by unfs_open passes FS_CHECK (unfs.fsid is the one
\* of the handle).  The value a call returns is the ret field of the state
\* its operator gives; ret is not part of the state of the program.
Cur == [hdr |-> hdr, map |-> map, mnf |-> mnf, heap |-> heap, tree |-> tree,
        init |-> init, nopen |-> nopen, hv |-> hv, dhdr |-> dhdr, dmap |-> dmap,
        dent |-> dent, proc |-> proc, ret |-> "OK"]

\* Addresses carry no meaning: after every call the nodes are renumbered,
\* the linked ones by name, then the freed ones some parent pointer still
\* refers to; freed memory nothing refers to is dropped.
Rank(name) ==
    IF name = Root THEN 1
    ELSE IF name = NameA THEN 2
    ELSE IF name = NameB THEN 3
    ELSE IF name = NameAB THEN 4
    ELSE 5

Key(S, i) == (IF i \in S.tree THEN 0 ELSE 1000) + 100 * Rank(S.heap[i].name) + i

RECURSIVE SortIds(_, _)
SortIds(S, ids) ==
    IF ids = {} THEN <<>>
    ELSE LET m == CHOOSE i \in ids : \A j \in ids : Key(S, i) <= Key(S, j)
         IN  <<m>> \o SortIds(S, ids \ {m})

Renumber(S, keep, order) ==
    LET F(i) == CHOOSE k \in 1..Len(order) : order[k] = i
    IN  [S EXCEPT !.heap = [k \in 1..Len(order) |->
                               [S.heap[order[k]] EXCEPT !.parent =
                                   IF @ \in keep THEN F(@) ELSE NULL]],
                  !.tree = {F(i) : i \in S.tree}]

Kept(S) == S.tree \cup ({S.heap[i].parent : i \in S.tree} \ {NULL})

Collect(S) ==
    IF /\ DOMAIN S.heap = Kept(S)
       /\ Kept(S) = 1..Cardinality(Kept(S))
       /\ \A k \in Kept(S) : k = 1 \/ Key(S, k - 1) < Key(S, k)
    THEN S
    ELSE Renumber(S, Kept(S), SortIds(S, Kept(S)))

Norm(S) ==
    IF Running(S) THEN [Collect(S) EXCEPT !.ret = "OK"]
    ELSE [CleanMem(S) EXCEPT !.hv = FALSE, !.ret = "OK"]

\* the number of calls a process makes
MaxCalls == 7

\* The step of one call; left is the number of calls the process still
\* makes.  clean records that the device was formatted by a
\* process that held no header and that no call since then failed after
\* changing something; c is its value if the call succeeds.
Step(T, N, c) ==
        /\ left > 0 /\ left' = left - 1 /\ rw' = rw /\ th' = th
        /\ hdr' = N.hdr /\ map' = N.map /\ mnf' = N.mnf
        /\ heap' = N.heap /\ tree' = N.tree
        /\ init' = N.init /\ nopen' = N.nopen /\ hv' = N.hv
        /\ dhdr' = N.dhdr /\ dmap' = N.dmap /\ dent' = N.dent
        /\ proc' = N.proc
        /\ clean' = IF T.ret = "OK" THEN c ELSE (clean /\ N = Cur)

Settle(T) ==
    IF Running(T) /\ T.heap = heap /\ T.tree = tree THEN [T EXCEPT !.ret = "OK"]
    ELSE Norm(T)

Apply(T, c) == Step(T, Settle(T), c)

\* a process that has not touched the library, on a device never formatted
InitFs ==
    /\ hdr = ZeroHdr /\ map = {} /\ mnf = 0
    /\ heap = <<>> /\ tree = {}
    /\ init = FALSE /\ nopen = 0 /\ hv = FALSE
    /\ dhdr = Blank /\ dmap = Blank
    /\ dent = [p \in SlotPages |-> Blank]
    /\ proc = "run" /\ clean = FALSE /\ left = MaxCalls

\* no thread is inside the library
NoThreads == [lock |-> 0, ioc |-> 0, at |-> <<>>]

Init == InitFs /\ rw = [phase |-> "none"] /\ th = NoThreads

\* cap on unfs.open
MaxFsOpen == 2

Modes == {UNFS_OPEN_RW, UNFS_OPEN_CREATE, UNFS_OPEN_EXCLUSIVE,
          UNFS_OPEN_CREATE \cup UNFS_OPEN_EXCLUSIVE}
Sizes == {0, 1} \cup {k * PageSize + 1 : k \in 1..(MaxPages - 1)}

\* The choices a call does not look at are not enumerated: what freed
\* memory gives matters once a node was freed that is still referred to, or
\* when rename frees a node it goes on using; the device implementation
\* matters when an entry is relocated or rename finds its destination;
\* realloc matters when the name grows and the node is referred to.
Ghosts(S) == \E i \in DOMAIN S.heap : S.heap[i].freed
Uncovered(S, id) == PAGECOUNT(S.heap[id].size) # TotalPages(S.heap[id].ds)
UBOfRemove(S) == IF Ghosts(S) THEN {"fault", "stale"} ELSE {"stale"}
DevOfRemove(S) == IF Len(S.hdr.delstack) >= DelMax THEN {"raw", "unvme"} ELSE {"raw"}
UBOfRename(S, src, dst) ==
    IF \/ Ghosts(S)
       \/ unfs_node_find(S, dst) # NULL
       \/ unfs_node_find_parent(S, dst) = unfs_node_find(S, src)
    THEN {"fault", "stale"} ELSE {"stale"}
DevOfRename(S, dst) == IF unfs_node_find(S, dst) # NULL THEN {"raw", "unvme"} ELSE {"raw"}
MovedOfRename(S, src, dst) ==
    LET srcnode == unfs_node_find(S, src)
    IN  IF /\ srcnode # NULL
           /\ Len(dst) > Len(src)
           /\ \/ unfs_node_find_parent(S, dst) = srcnode
              \/ \E i \in S.tree \ {srcnode} : S.heap[i].parent = srcnode
        THEN BOOLEAN ELSE {FALSE}
UBOfRw(S, id) == IF Uncovered(S, id) THEN {"fault", "stale"} ELSE {"stale"}

Format == proc = "run" /\ Apply(unfs_format(Cur), ~init)

Open == proc = "run" /\ nopen < MaxFsOpen /\ Apply(unfs_open(Cur), clean)

Close == proc = "run" /\ hv /\ Apply(unfs_close(Cur), clean)

Check == proc = "run" /\ Apply(unfs_check(Cur), clean)

Create ==
    /\ proc = "run" /\ hv
    /\ \E name \in NameU \cup {NameBad}, isdir \in BOOLEAN, pflag \in BOOLEAN :
          Apply(unfs_create(Cur, name, isdir, pflag), clean)

Remove ==
    /\ proc = "run" /\ hv
    /\ \E name \in NameU, isdir \in BOOLEAN :
       \E ub \in UBOfRemove(Cur), dev \in DevOfRemove(Cur) :
          Apply(unfs_remove(Cur, name, isdir, ub, dev), clean)

Rename ==
    /\ proc = "run" /\ hv
    /\ \E src \in NameU, dst \in NameU, override \in BOOLEAN :
       \E ub \in UBOfRename(Cur, src, dst), dev \in DevOfRename(Cur, dst),
          moved \in MovedOfRename(Cur, src, dst) :
          Apply(unfs_rename(Cur, src, dst, override, ub, dev, moved), clean)

FileOpen ==
    /\ proc = "run" /\ hv
    /\ \E name \in NameU \cup {NameBad}, mode \in Modes :
          /\ \A i \in tree : heap[i].name = name => heap[i].open < MaxOpen
          /\ Apply(unfs_file_open(Cur, name, mode), clean)

FileClose ==
    /\ proc = "run" /\ hv
    /\ \E id \in tree : heap[id].open > 0 /\ Apply(unfs_file_close(Cur, id), clean)

FileResize ==
    /\ proc = "run" /\ hv
    /\ \E id \in tree, newsize \in Sizes, fill \in BOOLEAN :
          heap[id].open > 0 /\ Apply(unfs_file_resize(Cur, id, newsize, fill), clean)

FileWrite ==
    /\ proc = "run" /\ hv
    /\ \E id \in tree, offset \in Sizes, len \in Sizes :
          /\ heap[id].open > 0
          /\ offset + len <= MaxPages * PageSize
          /\ \E ub \in UBOfRw(Cur, id) :
                Apply(unfs_file_write(Cur, id, offset, len, ub), clean)

FileRead ==
    /\ proc = "run" /\ hv
    /\ \E id \in tree, offset \in Sizes, len \in Sizes :
          /\ heap[id].open > 0
          /\ offset + len <= MaxPages * PageSize
          /\ \E ub \in UBOfRw(Cur, id) :
                Apply(unfs_file_read(Cur, id, offset, len, ub), clean)

Next ==
    \/ Format \/ Open \/ Close \/ Check
    \/ Create \/ Remove \/ Rename
    \/ FileOpen \/ FileClose \/ FileResize \/ FileWrite \/ FileRead

Spec == Init /\ [][Next]_vars

\* --------------------------------------------- checking any device
\* unfs_check is given a device by name: the header, the bitmap and the
\* entries it reads are whatever the device holds.  The devices drawn have
\* the root in the last slot and below it a slot that holds an entry of a
\* file with up to MaxDS segments, is on the delete stack, or is not used.
CheckSegs == {<<>>, <<[pageid |-> DataPage, pagecount |-> 1]>>,
              <<[pageid |-> DataPage, pagecount |-> 1],
                [pageid |-> DataPage + 2, pagecount |-> 1]>>}

InitCheck ==
    \E name \in {NameA, NameAB}, parentid \in {PageCount - UNFS_FILEPC,
                                               PageCount - 2 * UNFS_FILEPC},
       ds \in CheckSegs, data \in SUBSET {0, 2}, slot \in SUBSET {DataPages - 4, DataPages - 3},
       fdcount \in {1, 2}, delstack \in {<<>>, <<PageCount - 2 * UNFS_FILEPC>>},
       fdpage \in {PageCount - 2 * UNFS_FILEPC, PageCount - 3 * UNFS_FILEPC},
       slack \in {0, 1} :
        /\ hdr = ZeroHdr /\ map = {} /\ mnf = 0
        /\ heap = <<>> /\ tree = {}
        /\ init = FALSE /\ nopen = 0 /\ hv = FALSE
        /\ dhdr = [kind |-> "hdr",
                   h |-> [ver |-> TRUE, fdpage |-> fdpage, fdcount |-> fdcount,
                          dircount |-> 1,
                          mapuse |-> Cardinality(data \cup slot) + UNFS_FILEPC + slack,
                          delstack |-> delstack]]
        /\ dmap = [kind |-> "map",
                   bits |-> data \cup slot \cup {DataPages - 2, DataPages - 1}]
        /\ dent = [p \in SlotPages |->
                      IF p = PageCount - UNFS_FILEPC
                      THEN [kind |-> "entry", name |-> Root, pageid |-> p, parentid |-> 0,
                            size |-> 1, isdir |-> TRUE, ds |-> <<>>]
                      ELSE IF p = PageCount - 2 * UNFS_FILEPC
                      THEN [kind |-> "entry", name |-> name, pageid |-> p,
                            parentid |-> parentid, size |-> Len(ds) * PageSize,
                            isdir |-> FALSE, ds |-> ds]
                      ELSE Blank]
        /\ proc = "run" /\ clean = FALSE /\ left = 1
        /\ rw = [phase |-> "none"] /\ th = NoThreads

SpecCheck == InitCheck /\ [][Check]_vars

\* unfs_open is given the same devices
SpecOpen == InitCheck /\ [][Open]_vars

\* ------------------------------------------------- the bytes of files
\* Two files, created and opened on a formatted device whose data pages
\* hold zeros, are resized and written; rw.data holds the bytes of the
\* pages and rw.want, for every byte of either file, the byte last put
\* there: DataByte by a write, FillByte by a growth with fill, 0 by a
\* growth without.
MaxFillCalls == 4
FillFiles == {NameA, NameB}

Fresh == [hdr |-> ZeroHdr, map |-> {}, mnf |-> 0, heap |-> <<>>, tree |-> {},
          init |-> FALSE, nopen |-> 0, hv |-> FALSE, dhdr |-> Blank, dmap |-> Blank,
          dent |-> [p \in SlotPages |-> Blank], proc |-> "run", ret |-> "OK"]

FillStart ==
    Norm(unfs_file_open(Norm(unfs_file_open(unfs_open(unfs_format(Fresh)),
                                            NameA, UNFS_OPEN_CREATE)),
                        NameB, UNFS_OPEN_CREATE))

InitFill ==
    /\ hdr = FillStart.hdr /\ map = FillStart.map /\ mnf = FillStart.mnf
    /\ heap = FillStart.heap /\ tree = FillStart.tree
    /\ init = FillStart.init /\ nopen = FillStart.nopen /\ hv = FillStart.hv
    /\ dhdr = FillStart.dhdr /\ dmap = FillStart.dmap /\ dent = FillStart.dent
    /\ proc = "run" /\ clean = TRUE /\ left = MaxFillCalls
    /\ rw = [phase |-> "fill",
             data |-> [p \in DataPage..(PageCount - 1) |-> [j \in 1..PageSize |-> 0]],
             want |-> [n \in FillFiles |-> <<>>]]
    /\ th = NoThreads

CurData == Cur @@ [data |-> rw.data]

\* the step of one call on a file: as Step, and the bytes with it
FillStep(T, N, name, w) ==
    /\ left > 0 /\ left' = left - 1 /\ th' = th
    /\ hdr' = N.hdr /\ map' = N.map /\ mnf' = N.mnf
    /\ heap' = N.heap /\ tree' = N.tree
    /\ init' = N.init /\ nopen' = N.nopen /\ hv' = N.hv
    /\ dhdr' = N.dhdr /\ dmap' = N.dmap /\ dent' = N.dent
    /\ proc' = N.proc /\ clean' = clean
    /\ rw' = [rw EXCEPT !.data = N.data, !.want[name] = w]

\* want after the size of the file became newsize
Grown(w, newsize, byte) ==
    [x \in 1..newsize |-> IF x <= Len(w) THEN w[x] ELSE byte]

FillResize ==
    /\ rw.phase = "fill" /\ proc = "run" /\ hv
    /\ \E id \in tree, newsize \in Sizes, fill \in BOOLEAN :
          /\ heap[id].open > 0 /\ heap[id].name \in FillFiles
          /\ LET T == unfs_file_resize(CurData, id, newsize, fill)
             IN  FillStep(T, Settle(T), heap[id].name,
                          IF Running(T) /\ T.heap[id].size = newsize
                          THEN Grown(rw.want[heap[id].name], newsize,
                                     IF fill THEN FillByte ELSE 0)
                          ELSE rw.want[heap[id].name])

FillWrite ==
    /\ rw.phase = "fill" /\ proc = "run" /\ hv
    /\ \E id \in tree, offset \in Sizes, len \in Sizes :
          /\ heap[id].open > 0 /\ heap[id].name \in FillFiles
          /\ offset + len <= MaxPages * PageSize
          /\ \E ub \in UBOfRw(Cur, id) :
                LET T == unfs_file_write(CurData, id, offset, len, ub)
                    w == rw.want[heap[id].name]
                    g == IF Running(T) THEN Grown(w, T.heap[id].size, 0) ELSE w
                IN  FillStep(T, Settle(T), heap[id].name,
                             IF T.ret = "OK"
                             THEN [x \in 1..Len(g) |->
                                      IF x > offset /\ x <= offset + len THEN DataByte
                                      ELSE g[x]]
                             ELSE g)

NextFill == FillResize \/ FillWrite

SpecFill == InitFill /\ [][NextFill]_vars

\* byte x of a file as unfs_file_read finds it on the device
ReadByte(S, id, x) ==
    IF PageAt(S.heap[id].ds, x \div PageSize) \in DOMAIN S.data
    THEN S.data[PageAt(S.heap[id].ds, x \div PageSize)][(x % PageSize) + 1]
    ELSE JunkByte

\* ------------------------------------------- writing and reading a file
\* A file of any segment layout in the first RwDev pages of the data area,
\* every byte of the device distinct from every other and from the bytes
\* of the buffer written; unfs_file_write within the size of the file is
\* unfs_node_rw, and so is unfs_file_read.
OldByte(pa, j) == 100 + pa * PageSize + j
OldDisk == [pa \in 0..(RwDev - 1) |-> [j \in 1..PageSize |-> OldByte(pa, j)]]
BufOf(len) == [i \in 1..len |-> i]

Segs == {d \in [pageid : 0..(RwDev - 1), pagecount : 1..RwDev] :
            d.pageid + d.pagecount <= RwDev}
Layouts ==
    {ds \in UNION {[1..n -> Segs] : n \in 1..MaxDS} :
        \A i \in DOMAIN ds : \A j \in DOMAIN ds :
            i < j => \/ ds[i].pageid + ds[i].pagecount <= ds[j].pageid
                     \/ ds[j].pageid + ds[j].pagecount <= ds[i].pageid}
SizesOf(ds) == ((TotalPages(ds) - 1) * PageSize + 1)..(TotalPages(ds) * PageSize)

InitRW ==
    /\ InitFs /\ th = NoThreads
    /\ \E ds \in Layouts : \E size \in SizesOf(ds) :
          rw = [phase |-> "file", ds |-> ds, size |-> size, disk |-> OldDisk,
                off |-> 0, len |-> 0, lim |-> 0, out |-> <<>>]

WriteBytes ==
    /\ rw.phase = "file"
    /\ \E off \in 0..rw.size, lim \in 1..MaxIo : \E len \in 0..(rw.size - off) :
          rw' = [rw EXCEPT !.phase = "written", !.off = off, !.len = len, !.lim = lim,
                           !.disk = unfs_node_rw(rw.disk, rw.ds, BufOf(len), off, len,
                                                 TRUE, lim).disk]
    /\ UNCHANGED <<fsvars, th>>

ReadBytes ==
    /\ rw.phase = "written"
    /\ \E lim \in 1..MaxIo :
          rw' = [rw EXCEPT !.phase = "read", !.lim = lim,
                           !.out = unfs_node_rw(rw.disk, rw.ds,
                                                [i \in 1..rw.size |-> JunkByte],
                                                0, rw.size, FALSE, lim).out]
    /\ UNCHANGED <<fsvars, th>>

NextRW == WriteBytes \/ ReadBytes

SpecRW == InitRW /\ [][NextRW]_vars

\* -------------------------------------------------------------- threads
\* Threads of one process on the filesystem main() has formatted and
\* opened.  th.lock is the thread that holds unfs.lock for writing (0 for
\* none), th.ioc the number of I/O contexts taken, th.at[t] the position of
\* thread t: pc, the descriptor fd it holds (the name of the node), the
\* state pend the section it is in has computed, the value reg it loaded
\* from nodep->open, and k, the number of calls of its script that returned.
NThreads == 2
QCount == 1
MaxThreadCalls == 5
Threads == 1..NThreads

\* main(): unfs_format and unfs_open on a device never formatted
Mounted ==
    Norm(unfs_open(Norm(unfs_format(
        [hdr |-> ZeroHdr, map |-> {}, mnf |-> 0, heap |-> <<>>, tree |-> {},
         init |-> FALSE, nopen |-> 0, hv |-> FALSE, dhdr |-> Blank, dmap |-> Blank,
         dent |-> [p \in SlotPages |-> Blank], proc |-> "run", ret |-> "OK"]))))

\* a thread in no call; fd = <<>>: it holds no descriptor
AtRest == [pc |-> "idle", fd |-> <<>>, name |-> <<>>, pend |-> <<>>, ret |-> "OK",
           reg |-> 0, need |-> FALSE, k |-> 0]

InitThreads(script, calls) ==
    /\ hdr = Mounted.hdr /\ map = Mounted.map /\ mnf = Mounted.mnf
    /\ heap = Mounted.heap /\ tree = Mounted.tree
    /\ init = Mounted.init /\ nopen = Mounted.nopen /\ hv = Mounted.hv
    /\ dhdr = Mounted.dhdr /\ dmap = Mounted.dmap /\ dent = Mounted.dent
    /\ proc = Mounted.proc /\ clean = TRUE
    /\ left = calls
    /\ rw = [phase |-> "none"]
    /\ th = [lock |-> 0, ioc |-> 0, script |-> script, at |-> [t \in Threads |-> AtRest]]

\* the file of thread t in test_thread: "/a", "/aa", ...
OwnName(t) == <<"/">> \o [i \in 1..t |-> "a"]
NamesOf(t) == IF th.script THEN {OwnName(t)} ELSE {NameA, NameB}
Script(t, n) == th.at[t].pc = "idle" /\ (th.script => th.at[t].k = n)

\* pthread_rwlock_wrlock returns once no thread holds the lock
FS_NOLOCK(holder) == TRUE
FS_WRLOCK(holder) == holder = 0

SetFs(N) ==
    /\ hdr' = N.hdr /\ map' = N.map /\ mnf' = N.mnf /\ heap' = N.heap /\ tree' = N.tree
    /\ init' = N.init /\ nopen' = N.nopen /\ hv' = N.hv
    /\ dhdr' = N.dhdr /\ dmap' = N.dmap /\ dent' = N.dent /\ proc' = N.proc

\* thread t after a call returned
Rest(t, fd) == [AtRest EXCEPT !.fd = fd,
                              !.k = th.at[t].k + (IF th.script THEN 1 ELSE 0)]

\* A call that takes unfs.lock: T is the state its section leaves, computed
\* from the state it finds; need tells that the section takes an I/O
\* context.
Enter(t, T, pc, name, need) ==
    /\ FS_WRLOCK(th.lock)
    /\ left > 0 /\ left' = left - 1
    /\ th' = [th EXCEPT !.lock = t,
                        !.at[t] = [@ EXCEPT !.pc = pc, !.name = name, !.pend = Norm(T),
                                            !.ret = T.ret, !.need = need]]
    /\ SetFs(Cur) /\ UNCHANGED <<clean, rw>>

\* The section writes no open count but the one unfs_file_open increments
\* (the node named keep): the others are as unfs_file_close, which takes no
\* lock, has left them.
Merged(N, keep) ==
    [N EXCEPT !.heap = [i \in DOMAIN N.heap |->
        IF /\ i \in N.tree /\ N.heap[i].name # keep
           /\ \E j \in tree : heap[j].name = N.heap[i].name
        THEN [N.heap[i] EXCEPT !.open =
                 heap[CHOOSE j \in tree : heap[j].name = N.heap[i].name].open]
        ELSE N.heap[i]]]

\* the end of the section and FS_UNLOCK; unfs_file_write goes on to
\* unfs_node_rw without the lock
Leave(t) ==
    /\ proc = "run"
    /\ th.at[t].pc \in {"open", "call", "resize", "write"}
    /\ th.at[t].need => th.ioc < QCount
    /\ SetFs(Merged(th.at[t].pend,
                    IF th.at[t].pc = "open" /\ th.at[t].ret = "OK" THEN th.at[t].name
                    ELSE <<>>))
    /\ th' = [th EXCEPT !.lock = 0,
                        !.at[t] = IF @.pc = "open"
                                  THEN Rest(t, IF @.ret = "OK" THEN @.name ELSE <<>>)
                                  ELSE IF @.pc = "write" /\ @.ret = "OK"
                                  THEN [@ EXCEPT !.pc = "wrwait", !.pend = <<>>]
                                  ELSE Rest(t, @.fd)]
    /\ UNCHANGED <<clean, left, rw>>

TOpen(t) ==
    /\ proc = "run" /\ Script(t, 0) /\ th.at[t].fd = <<>>
    /\ \E name \in NamesOf(t),
          mode \in (IF th.script THEN {UNFS_OPEN_CREATE}
                    ELSE {UNFS_OPEN_RW, UNFS_OPEN_CREATE}) :
          Enter(t, unfs_file_open(Cur, name, mode), "open", name,
                unfs_node_find(Cur, name) = NULL /\ "create" \in mode
                    /\ unfs_node_find_parent(Cur, name) # NULL)

\* the node of the descriptor of thread t, NULL once it was removed
FdNode(t) == IF th.at[t].fd = <<>> THEN NULL ELSE unfs_node_find(Cur, th.at[t].fd)

\* The device of the test holds the files of all its threads: a thread
\* that works on its own file keeps it within its share of the data pages
\* left when every thread has its entry.
OwnPages == (DataPages - (NThreads + 1) * UNFS_FILEPC) \div NThreads
ThreadSizes(script) == IF script THEN {n \in Sizes : n <= OwnPages * PageSize} ELSE Sizes

TResize(t) ==
    /\ proc = "run" /\ Script(t, 1) /\ FdNode(t) # NULL
    /\ \E newsize \in ThreadSizes(th.script) :
          Enter(t, unfs_file_resize(Cur, FdNode(t), newsize, FALSE), "resize",
                th.at[t].fd, heap[FdNode(t)].open > 0)

TWrite(t) ==
    /\ proc = "run" /\ Script(t, 2) /\ FdNode(t) # NULL
    /\ heap[FdNode(t)].open > 0
    /\ \E offset \in {0, 1}, len \in {1, PageSize + 1}, ub \in UBOfRw(Cur, FdNode(t)) :
          /\ th.script => offset + len <= OwnPages * PageSize
          /\ Enter(t, unfs_file_write(Cur, FdNode(t), offset, len, ub), "write",
                   th.at[t].fd, offset + len > heap[FdNode(t)].size)

TRead(t) ==
    /\ proc = "run" /\ Script(t, 3) /\ FdNode(t) # NULL
    /\ heap[FdNode(t)].open > 0
    /\ left > 0 /\ left' = left - 1
    /\ th' = [th EXCEPT !.at[t].pc = "rdwait"]
    /\ SetFs(Cur) /\ UNCHANGED <<clean, rw>>

\* unfs_node_rw: unfs.dev.ioc_alloc waits for a free context
TIo(t) ==
    /\ proc = "run"
    /\ th.at[t].pc \in {"rdwait", "wrwait"}
    /\ th.ioc < QCount
    /\ th' = [th EXCEPT !.ioc = @ + 1,
                        !.at[t].pc = IF @ = "rdwait" THEN "rd" ELSE "wr"]
    /\ SetFs(Cur) /\ UNCHANGED <<clean, left, rw>>

TIoEnd(t) ==
    /\ proc = "run"
    /\ th.at[t].pc \in {"rd", "wr"}
    /\ th' = [th EXCEPT !.ioc = @ - 1, !.at[t] = Rest(t, @.fd)]
    /\ SetFs(Cur) /\ UNCHANGED <<clean, left, rw>>

\* unfs_file_close takes no lock: nodep->open is loaded, tested, and the
\* value less one is stored
TClose(t) ==
    /\ proc = "run" /\ Script(t, 4) /\ FdNode(t) # NULL
    /\ left > 0 /\ left' = left - 1
    /\ th' = IF heap[FdNode(t)].open = 0 THEN [th EXCEPT !.at[t] = Rest(t, @.fd)]
             ELSE [th EXCEPT !.at[t].pc = "close", !.at[t].reg = heap[FdNode(t)].open]
    /\ SetFs(Cur) /\ UNCHANGED <<clean, rw>>

TCloseStore(t) ==
    /\ proc = "run"
    /\ th.at[t].pc = "close"
    /\ heap' = IF FdNode(t) = NULL THEN heap
               ELSE [heap EXCEPT ![FdNode(t)].open = th.at[t].reg - 1]
    /\ th' = [th EXCEPT !.at[t] = Rest(t, <<>>)]
    /\ UNCHANGED <<hdr, map, mnf, tree, init, nopen, hv, dhdr, dmap, dent, proc,
                   clean, left, rw>>

TRemove(t) ==
    /\ proc = "run" /\ Script(t, 0)
    /\ \E name \in NamesOf(t), ub \in UBOfRemove(Cur), dev \in DevOfRemove(Cur) :
          Enter(t, unfs_remove(Cur, name, FALSE, ub, dev), "call", name,
                unfs_remove(Cur, name, FALSE, ub, dev).ret = "OK")

TRename(t) ==
    /\ proc = "run" /\ Script(t, 0)
    /\ \E src \in NamesOf(t), dst \in NamesOf(t), override \in BOOLEAN :
       \E ub \in UBOfRename(Cur, src, dst), dev \in DevOfRename(Cur, dst),
          moved \in MovedOfRename(Cur, src, dst) :
          Enter(t, unfs_rename(Cur, src, dst, override, ub, dev, moved), "call", src, TRUE)

\* A call on a descriptor whose node was freed reads freed memory: the
\* process is ended, or the call finds the memory as it was left and
\* touches nothing that is in use.
TDangling(t) ==
    /\ proc = "run"
    /\ th.at[t].pc = "idle" /\ th.at[t].fd # <<>> /\ FdNode(t) = NULL
    /\ left > 0 /\ left' = left - 1
    /\ \E ub \in {"fault", "stale"} :
          /\ SetFs(IF ub = "fault" THEN Norm(Fatal(Cur)) ELSE Cur)
          /\ th' = [th EXCEPT !.at[t] = Rest(t, <<>>)]
    /\ UNCHANGED <<clean, rw>>

NextMT ==
    \E t \in Threads :
        \/ TOpen(t) \/ TClose(t) \/ TCloseStore(t) \/ TRemove(t) \/ TRename(t)
        \/ TResize(t) \/ TWrite(t) \/ TRead(t) \/ TIo(t) \/ TIoEnd(t)
        \/ Leave(t) \/ TDangling(t)

SpecMT == InitThreads(FALSE, MaxThreadCalls) /\ [][NextMT]_vars

\* Every thread makes one call that creates a node under "/a", which main()
\* has not created: unfs_create, or unfs_file_open with UNFS_OPEN_CREATE.
\* The thread keeps the value its call returned.
NameAA == <<"/", "a", "/", "a">>

TCreate(t) ==
    /\ proc = "run" /\ th.at[t].pc = "idle"
    /\ \E name \in {NameAA, NameAB}, isdir \in BOOLEAN, pflag \in BOOLEAN :
          Enter(t, unfs_create(Cur, name, isdir, pflag), "create", name,
                unfs_create(Cur, name, isdir, pflag).dhdr # dhdr)

TCreateOpen(t) ==
    /\ proc = "run" /\ th.at[t].pc = "idle"
    /\ \E name \in {NameAA, NameAB} :
          Enter(t, unfs_file_open(Cur, name, UNFS_OPEN_CREATE), "create", name,
                unfs_node_find(Cur, name) = NULL
                    /\ unfs_node_find_parent(Cur, name) # NULL)

\* FS_UNLOCK and the return of the call
TCreated(t) ==
    /\ th.at[t].pc = "create"
    /\ th.at[t].need => th.ioc < QCount
    /\ SetFs(Merged(th.at[t].pend, <<>>))
    /\ th' = [th EXCEPT !.lock = 0, !.at[t] = [@ EXCEPT !.pc = "done", !.pend = <<>>]]
    /\ UNCHANGED <<clean, left, rw>>

NextCreate == \E t \in Threads : TCreate(t) \/ TCreateOpen(t) \/ TCreated(t)

SpecCreate == InitThreads(FALSE, NThreads) /\ [][NextCreate]_vars

\* test_thread: every thread opens, resizes, writes, reads and closes its
\* own file, five calls.
OwnNext(t) ==
    \/ TRead(t) \/ TClose(t) \/ TCloseStore(t) \/ TIo(t) \/ TIoEnd(t) \/ Leave(t)

NextOwn == \E t \in Threads : TOpen(t) \/ TResize(t) \/ TWrite(t) \/ OwnNext(t)

\* A thread that can take a step takes one: a thread is at one place at
\* a time, so this is weak fairness of each of its steps.  For the calls
\* that take the lock the condition under which the step can be taken is
\* written out: the thread is at the call and the lock is free.
OwnFair(t) ==
    /\ WF_vars(OwnNext(t))
    /\ \/ []<>~(/\ proc = "run" /\ Script(t, 0) /\ th.at[t].fd = <<>>
                 /\ FS_WRLOCK(th.lock) /\ left > 0)
       \/ []<><<TOpen(t)>>_vars
    /\ \/ []<>~(proc = "run" /\ Script(t, 1) /\ FdNode(t) # NULL
                 /\ FS_WRLOCK(th.lock) /\ left > 0)
       \/ []<><<TResize(t)>>_vars
    /\ \/ []<>~(/\ proc = "run" /\ Script(t, 2) /\ FdNode(t) # NULL
                 /\ heap[FdNode(t)].open > 0
                 /\ FS_WRLOCK(th.lock) /\ left > 0)
       \/ []<><<TWrite(t)>>_vars

SpecOwn ==
    InitThreads(TRUE, NThreads * 5) /\ [][NextOwn]_vars /\ \A t \in Threads : OwnFair(t)

\* ------------------------------------------------- the page allocator
\* unfs_map_alloc on any bitmap that holds the bits of the root slot, with
\* the search hint unfs_open computes for it; the run a call returns is
\* freed again by unfs_map_free.  rw.old is the bitmap before the last
\* call of unfs_map_alloc, rw.pc its argument and rw.v its result.
MaxRun == 5
MaxAllocCalls == 3

InitAlloc ==
    \E bits \in SUBSET (0..(DataPages - UNFS_FILEPC - 1)) :
        /\ map = bits \cup ((DataPages - UNFS_FILEPC)..(DataPages - 1))
        /\ mnf = NextFree(map, 0)
        /\ hdr = [Mounted.hdr EXCEPT !.mapuse = Cardinality(map)]
        /\ heap = Mounted.heap /\ tree = Mounted.tree
        /\ init = Mounted.init /\ nopen = Mounted.nopen /\ hv = Mounted.hv
        /\ dhdr = [kind |-> "hdr", h |-> hdr] /\ dmap = [kind |-> "map", bits |-> map]
        /\ dent = Mounted.dent
        /\ proc = "run" /\ clean = FALSE /\ left = MaxAllocCalls
        /\ rw = [phase |-> "map", old |-> map, pc |-> 0, v |-> 0]
        /\ th = NoThreads

AllocStep(N, r) ==
    /\ left > 0 /\ left' = left - 1 /\ th' = th
    /\ hdr' = N.hdr /\ map' = N.map /\ mnf' = N.mnf
    /\ heap' = N.heap /\ tree' = N.tree
    /\ init' = N.init /\ nopen' = N.nopen /\ hv' = N.hv
    /\ dhdr' = N.dhdr /\ dmap' = N.dmap /\ dent' = N.dent
    /\ proc' = N.proc /\ clean' = clean
    /\ rw' = r

MapAlloc ==
    /\ rw.phase = "map" /\ proc = "run"
    /\ \E pc \in 1..MaxRun :
          AllocStep(Settle(unfs_map_alloc(Cur, pc).s),
                    [phase |-> "alloc", old |-> map, pc |-> pc,
                     v |-> unfs_map_alloc(Cur, pc).v])

MapFree ==
    /\ rw.phase = "alloc" /\ proc = "run" /\ rw.v # 0
    /\ AllocStep(Settle(unfs_map_free(Cur, rw.v, rw.pc)), [rw EXCEPT !.phase = "map"])

NextAlloc == MapAlloc \/ MapFree

SpecAlloc == InitAlloc /\ [][NextAlloc]_vars

\* --------------------------------------------------------- properties
\* C8: for a file of any size and segment layout, any offset and length
\* with offset + length within the size and any I/O buffer of one page or
\* more, reading the whole file after file_write(buf, offset, length) gives
\* the bytes of buf in [offset, offset + length) and the bytes the file
\* had before everywhere else.
C8_WriteThenRead ==
    rw.phase = "read" =>
        rw.out = [i \in 1..rw.size |->
                     IF i > rw.off /\ i <= rw.off + rw.len
                     THEN BufOf(rw.len)[i - rw.off]
                     ELSE OldByte(PageAt(rw.ds, (i - 1) \div PageSize),
                                  ((i - 1) % PageSize) + 1)]

\* a write read back that starts and ends inside a page, in two segments
C8_Witness ==
    /\ rw.phase = "read"
    /\ Len(rw.ds) = 2
    /\ rw.off % PageSize # 0
    /\ (rw.off + rw.len) % PageSize # 0
    /\ rw.off \div PageSize < rw.ds[1].pagecount
    /\ (rw.off + rw.len) \div PageSize >= rw.ds[1].pagecount
    /\ rw.size > rw.off + rw.len

\* The library holds a filesystem: the process runs, the header is allocated
\* and it is the header of a formatted device (the version string is there).
Holds == proc = "run" /\ init /\ hdr.ver

\* C1: after every call, successful or not, the header the library holds
\* satisfies fdnextpage + (fdcount + delcount + 1) * FILEPC = pagecount.
C1_HeaderEquation ==
    Holds => hdr.fdpage + (hdr.fdcount + Len(hdr.delstack) + 1) * UNFS_FILEPC = PageCount

\* C2: after every call the number of bits set in the bitmap is the
\* used-page count of the header.
C2_MapCount == Holds => unfs_map_count(map) = hdr.mapuse

\* A filesystem formatted by a process that held none is open, and no
\* call since the format failed after changing something.
Sound == Holds /\ hv /\ clean

Used(pa) == (pa - DataPage) \in map
Files == {i \in tree : ~heap[i].isdir}
NodeOf(i) == [name |-> heap[i].name, isdir |-> heap[i].isdir, size |-> heap[i].size,
              pageid |-> heap[i].pageid, parentid |-> heap[i].parentid,
              ds |-> heap[i].ds]

\* C3: after any sequence of create, resize, write, remove and rename,
\* every page of every segment of every file in memory is marked used and
\* no page is in the segments of two files.
C3_SegmentsUsed ==
    Sound =>
        /\ \A i \in Files : \A pa \in SegPages(heap[i].ds) : Used(pa)
        /\ \A i \in Files : \A j \in Files \ {i} :
              SegPages(heap[i].ds) \cap SegPages(heap[j].ds) = {}

\* C4: after every call the pages [pageid, pageid + FILEPC) of the entry
\* slot of every node of the index are marked used, also after a remove
\* that moves the last entry into the slot removed.
C4_SlotsUsed ==
    Sound =>
        \A i \in tree : heap[i].pageid # 0 =>
            \A pa \in heap[i].pageid..(heap[i].pageid + UNFS_FILEPC - 1) : Used(pa)

\* C5: every node but the root has a parent node in the index, is an
\* immediate child of it by unfs_child_of, and its parentid is the page
\* address the parent has now.
C5_Parent ==
    Sound =>
        \A i \in tree : heap[i].name # Root =>
            /\ heap[i].parent \in tree
            /\ unfs_child_of(heap[i].name, heap[heap[i].parent].name)
            /\ heap[i].parentid = heap[heap[i].parent].pageid

\* C6: the size of every directory is the number of nodes of the index
\* that are its immediate children.
C6_DirSize ==
    Sound =>
        \A i \in tree : heap[i].isdir =>
            heap[i].size =
                Cardinality({j \in tree : unfs_child_of(heap[j].name, heap[i].name)})

\* C7: after every operation on a file the page counts of its segments add
\* up to ceil(size / PAGESIZE), the segments are pairwise disjoint and
\* there are at most MAXDS of them.
C7_FilePages ==
    Sound =>
        \A i \in Files :
            /\ TotalPages(heap[i].ds) = PAGECOUNT(heap[i].size)
            /\ Len(heap[i].ds) <= MaxDS
            /\ \A a \in DOMAIN heap[i].ds : \A b \in DOMAIN heap[i].ds :
                  a # b => SegPages(<<heap[i].ds[a]>>) \cap SegPages(<<heap[i].ds[b]>>) = {}

\* The state after unfs_close and unfs_open, when this is the last handle.
Reopened == Norm(unfs_open(Norm(unfs_close(Cur))))

\* C9: close followed by open gives the same header and an index of
\* exactly the same nodes: name, isdir, size, pageid, parentid, segments.
C9_Reopen ==
    Sound /\ nopen = 1 =>
        /\ Reopened.hdr = hdr
        /\ {[name |-> Reopened.heap[i].name, isdir |-> Reopened.heap[i].isdir,
             size |-> Reopened.heap[i].size, pageid |-> Reopened.heap[i].pageid,
             parentid |-> Reopened.heap[i].parentid, ds |-> Reopened.heap[i].ds] :
                i \in Reopened.tree}
           = {NodeOf(i) : i \in tree}

\* C10: after any sequence of successful calls followed by the close of
\* the filesystem, unfs_check returns 0.
C10_CheckOk == (proc = "run" /\ clean /\ ~init) => unfs_check(Cur).ret = "OK"

\* C11: under any interleaving of file_open, file_close, remove and rename
\* by several threads, the node of a descriptor that was opened and is not
\* yet closed is in the name index.
C11_OpenNodeStays ==
    proc = "run" => \A t \in Threads : th.at[t].fd # <<>> => FdNode(t) # NULL

\* C13: when several threads each open, resize, write, read and close
\* their own file, every call returns, and once all threads have finished
\* the number of bits set is the used-page count, every page of every file
\* is marked used and no page is in two files.
C13_OwnFiles ==
    /\ <>(\A t \in Threads : th.at[t].pc = "idle" /\ th.at[t].k = 5)
    /\ [](((\A t \in Threads : th.at[t].pc = "idle" /\ th.at[t].k = 5) /\ proc = "run") =>
            /\ unfs_map_count(map) = hdr.mapuse
            /\ \A i \in Files : \A pa \in SegPages(heap[i].ds) : Used(pa)
            /\ \A i \in Files : \A j \in Files \ {i} :
                  SegPages(heap[i].ds) \cap SegPages(heap[j].ds) = {})

\* all threads have finished and every file has pages
C13_Witness ==
    /\ \A t \in Threads : th.at[t].pc = "idle" /\ th.at[t].k = 5
    /\ Cardinality(Files) = NThreads
    /\ \A i \in Files : heap[i].ds # <<>>

\* C14: a read of a file is never in progress in one thread while another
\* thread is in a resize or a write of the same file.
C14_ReadersExcluded ==
    \A t \in Threads : \A u \in Threads \ {t} :
        (th.at[t].pc \in {"rdwait", "rd"} /\ th.at[u].pc \in {"resize", "write", "wrwait", "wr"})
            => th.at[t].fd # th.at[u].fd

\* C12: a node that is open is not removed and not overwritten by a
\* rename, and a directory that is not empty is not removed and not renamed:
\* the call returns EBUSY and changes nothing.  The node is one the call
\* can name (not the root), unfs_remove is given its isdir, and the source
\* of the overriding rename exists.
BusyNode(i) == heap[i].open > 0 \/ (heap[i].isdir /\ heap[i].size # 0)

C12_Busy ==
    (proc = "run" /\ hv) =>
        \A i \in tree :
            /\ (heap[i].name \in NameU \ {Root} /\ BusyNode(i)) =>
                  \A ub \in {"fault", "stale"}, dev \in {"raw", "unvme"} :
                      unfs_remove(Cur, heap[i].name, heap[i].isdir, ub, dev)
                          = Ret(Cur, "EBUSY")
            /\ (heap[i].name \in NameU \ {Root} /\ heap[i].open > 0) =>
                  \A src \in NameU :
                      (Len(src) > 1 /\ unfs_node_find(Cur, src) # NULL) =>
                          \A ub \in {"fault", "stale"}, dev \in {"raw", "unvme"},
                             moved \in BOOLEAN :
                              unfs_rename(Cur, src, heap[i].name, TRUE, ub, dev, moved)
                                  = Ret(Cur, "EBUSY")
            /\ (heap[i].name \in NameU \ {Root} /\ heap[i].isdir /\ heap[i].size # 0) =>
                  \A dst \in NameU, override \in BOOLEAN :
                      \A ub \in {"fault", "stale"}, dev \in {"raw", "unvme"},
                         moved \in BOOLEAN :
                          unfs_rename(Cur, heap[i].name, dst, override, ub, dev, moved)
                              = Ret(Cur, "EBUSY")

\* C15: a unfs_create, unfs_remove or unfs_rename that returns ENOENT,
\* EEXIST, EBUSY or EINVAL leaves the header, the bitmap, the delete stack,
\* the index and the nodes as they were; a unfs_create of a name that is
\* invalid or has no parent returns an error and leaves them as they were.
UserErrors == {"ENOENT", "EEXIST", "EBUSY", "EINVAL"}

Refused(r) == r.ret \in UserErrors => r = Ret(Cur, r.ret)

C15_ErrorsChangeNothing ==
    (proc = "run" /\ hv) =>
        /\ \A name \in NameU \cup {NameBad}, isdir \in BOOLEAN, pflag \in BOOLEAN :
              /\ Refused(unfs_create(Cur, name, isdir, pflag))
              /\ (/\ ~pflag
                  /\ unfs_node_find(Cur, name) = NULL
                  /\ ~ValidName(name) \/ unfs_node_find_parent(Cur, name) = NULL) =>
                     /\ unfs_create(Cur, name, isdir, pflag).ret \notin {"OK", "ABORT"}
                     /\ unfs_create(Cur, name, isdir, pflag)
                            = Ret(Cur, unfs_create(Cur, name, isdir, pflag).ret)
        /\ \A name \in NameU, isdir \in BOOLEAN :
           \A ub \in UBOfRemove(Cur), dev \in DevOfRemove(Cur) :
              Refused(unfs_remove(Cur, name, isdir, ub, dev))
        /\ \A src \in NameU, dst \in NameU, override \in BOOLEAN :
           \A ub \in UBOfRename(Cur, src, dst), dev \in DevOfRename(Cur, dst),
              moved \in MovedOfRename(Cur, src, dst) :
              Refused(unfs_rename(Cur, src, dst, override, ub, dev, moved))

\* C16: when unfs_node_alloc finds no entry slot for a unfs_create, or
\* unfs_node_resize finds no run of pages for a unfs_file_resize or an
\* extending unfs_file_write, the call returns ENOSPC and the header, the
\* bitmap in memory and on the device, the delete stack and the nodes are
\* as they were.
NoSlot(dir) ==
    /\ Running(unfs_node_alloc(Cur, dir).s)
    /\ unfs_node_alloc(Cur, dir).v = 0

NoRun(id, newsize, fill) ==
    /\ newsize > heap[id].size
    /\ GrowSegs(Cur, id, heap[id].size, newsize, fill).err = "ENOSPC"

C16_NoSpace ==
    (proc = "run" /\ hv) =>
        /\ \A name \in NameU, isdir \in BOOLEAN :
              (/\ unfs_node_find(Cur, name) = NULL
               /\ unfs_node_find_parent(Cur, name) # NULL
               /\ NoSlot(isdir)) =>
                  unfs_create(Cur, name, isdir, FALSE) = Ret(Cur, "ENOSPC")
        /\ \A id \in tree, newsize \in Sizes, fill \in BOOLEAN :
              (heap[id].open > 0 /\ NoRun(id, newsize, fill)) =>
                  unfs_file_resize(Cur, id, newsize, fill) = Ret(Cur, "ENOSPC")
        /\ \A id \in tree, offset \in Sizes, len \in Sizes :
              (/\ heap[id].open > 0
               /\ offset + len <= MaxPages * PageSize
               /\ NoRun(id, offset + len, FALSE)) =>
                  \A ub \in UBOfRw(Cur, id) :
                      unfs_file_write(Cur, id, offset, len, ub) = Ret(Cur, "ENOSPC")

\* C17: unfs_file_open reports a failure in the error field of the
\* descriptor it returns: a call that opens nothing returns, with an error
\* code and the filesystem as it was; with UNFS_OPEN_CREATE that is so for
\* a name with no parent directory, an invalid name, and when there is no
\* entry slot.
Reported(r) == r.ret # "OK" => (r.ret # "ABORT" /\ r = Ret(Cur, r.ret))

C17_OpenReports ==
    (proc = "run" /\ hv) =>
        \A name \in NameU \cup {NameBad}, mode \in Modes :
            /\ Reported(unfs_file_open(Cur, name, mode))
            /\ (/\ "create" \in mode
                /\ unfs_node_find(Cur, name) = NULL
                /\ \/ unfs_node_find_parent(Cur, name) = NULL
                   \/ ~ValidName(name)
                   \/ NoSlot(FALSE)) =>
                      unfs_file_open(Cur, name, mode).ret # "OK"

\* C18: a unfs_file_resize of an open file that returns 0 leaves the file
\* with the size asked for.
C18_ResizeDone ==
    (proc = "run" /\ hv) =>
        \A id \in tree, newsize \in Sizes, fill \in BOOLEAN :
            (/\ heap[id].open > 0
             /\ unfs_file_resize(Cur, id, newsize, fill).ret = "OK") =>
                unfs_file_resize(Cur, id, newsize, fill).heap[id].size = newsize

\* C19: after a unfs_rename(src, dst, override) that returns 0, src names
\* no node unless dst = src; dst names a node with the isdir, size,
\* segments and entry slot src had; a distinct node dst named before is
\* gone and its data pages are free; every other node is as it was, but
\* for the size of the old parent (one less) and of the new parent (one
\* more) when the two differ, and the size of the directory that held the
\* node replaced (one less).
RenameDelta(i, srcparent, dstparent, replaced) ==
    (IF i = dstparent /\ replaced THEN -1 ELSE 0)
        + (IF srcparent = dstparent THEN 0
           ELSE IF i = srcparent THEN -1
           ELSE IF i = dstparent THEN 1
           ELSE 0)

Renamed(r, src, dst, s0, d0, dstparent) ==
    r.ret = "OK" =>
        /\ src # dst => unfs_node_find(r, src) = NULL
        /\ \E j \in r.tree :
              /\ r.heap[j].name = dst
              /\ r.heap[j].isdir = heap[s0].isdir
              /\ r.heap[j].size = heap[s0].size
              /\ r.heap[j].ds = heap[s0].ds
              /\ r.heap[j].pageid = heap[s0].pageid
        /\ (d0 # NULL /\ d0 # s0) =>
              \A pa \in SegPages(heap[d0].ds) : (pa - DataPage) \notin r.map
        /\ {r.heap[j].name : j \in r.tree}
              = ({heap[i].name : i \in tree} \ {src}) \cup {dst}
        /\ \A i \in tree \ {s0, d0} :
              \E j \in r.tree :
                 /\ r.heap[j].name = heap[i].name
                 /\ r.heap[j].isdir = heap[i].isdir
                 /\ r.heap[j].ds = heap[i].ds
                 /\ r.heap[j].pageid = heap[i].pageid
                 /\ r.heap[j].parentid = heap[i].parentid
                 /\ r.heap[j].open = heap[i].open
                 /\ r.heap[j].size
                       = heap[i].size + RenameDelta(i, heap[s0].parent, dstparent,
                                                    d0 # NULL /\ d0 # s0)

C19_RenameEffect ==
    (proc = "run" /\ hv) =>
        \A src \in NameU, dst \in NameU, override \in BOOLEAN :
        \A ub \in UBOfRename(Cur, src, dst), dev \in DevOfRename(Cur, dst),
           moved \in MovedOfRename(Cur, src, dst) :
            Renamed(unfs_rename(Cur, src, dst, override, ub, dev, moved), src, dst,
                    unfs_node_find(Cur, src), unfs_node_find(Cur, dst),
                    unfs_node_find_parent(Cur, dst))

\* C20: a unfs_create that returned 0, made again with the same name,
\* isdir and pflag, returns 0 and leaves the header, the bitmap, the index
\* and the nodes as the first left them, also when the first made the
\* directories above the name.
C20_CreateIdempotent ==
    (proc = "run" /\ hv) =>
        \A name \in NameU \cup {NameBad}, isdir \in BOOLEAN, pflag \in BOOLEAN :
            unfs_create(Cur, name, isdir, pflag).ret = "OK" =>
                unfs_create(unfs_create(Cur, name, isdir, pflag), name, isdir, pflag)
                    = unfs_create(Cur, name, isdir, pflag)

\* a unfs_create of "/a/b" with pflag that makes "/a" and "/a/b"
C20_Witness ==
    /\ proc = "run" /\ hv
    /\ unfs_node_find(Cur, NameA) = NULL
    /\ unfs_create(Cur, NameAB, FALSE, TRUE).ret = "OK"
    /\ Cardinality(unfs_create(Cur, NameAB, FALSE, TRUE).tree) = Cardinality(tree) + 2

\* C21: unfs_file_open of a node that is open, with UNFS_OPEN_EXCLUSIVE,
\* returns EBUSY and changes nothing; of a name not in the index, without
\* UNFS_OPEN_CREATE, it returns ENOENT; with UNFS_OPEN_CREATE, a parent in
\* the index and an entry slot to take, it makes a file of size 0; and
\* every call that returns a descriptor adds exactly one to the open count
\* of its node.
Opened(r, n, name, mode) ==
    /\ (n # NULL /\ heap[n].open > 0 /\ "exclusive" \in mode) => r = Ret(Cur, "EBUSY")
    /\ (n = NULL /\ "create" \notin mode) => r = Ret(Cur, "ENOENT")
    /\ (/\ n = NULL /\ "create" \in mode
        /\ unfs_node_find_parent(Cur, name) # NULL
        /\ ~NoSlot(FALSE)) =>
           /\ r.ret = "OK"
           /\ \E j \in r.tree :
                 /\ r.heap[j].name = name /\ ~r.heap[j].isdir
                 /\ r.heap[j].size = 0 /\ r.heap[j].ds = <<>>
                 /\ r.heap[j].open = 1
    /\ (n # NULL /\ r.ret = "OK") =>
           /\ n \in r.tree
           /\ r.heap[n].open = heap[n].open + 1

LiveSlots(h) ==
    {p \in SlotPages : p > h.fdpage /\ ~InDelStack(h, p)}

ParentName(name) ==
    IF LastSlash(name) <= 1 THEN Root ELSE SubSeq(name, 1, LastSlash(name) - 1)

EntryGood(bits, e, p) ==
    /\ e.kind = "entry"
    /\ \A pa \in {p, p + 1} \cup SegPages(e.ds) : (pa - DataPage) \in bits
    /\ e.name # Root =>
          /\ e.parentid \in SlotPages
          /\ dent[e.parentid].kind = "entry"
          /\ dent[e.parentid].name = ParentName(e.name)

DeviceGood ==
    /\ ValidHeader(dhdr, dmap)
    /\ \A p \in LiveSlots(dhdr.h) : EntryGood(dmap.bits, dent[p], p)

C22_CheckIff ==
    (proc = "run" /\ ~init) => (unfs_check(Cur).ret = "OK" <=> DeviceGood)

\* C23: when unfs_format returns success, whatever the device and the header
\* and bitmap in memory held before, the device holds one entry, the root "/"
\* of size 0 in the last UNFS_FILEPC pages, fdcount = 1, dircount = 1, an
\* empty delete stack, and exactly the bits of those UNFS_FILEPC pages set.
Formatted(r) ==
    r.ret = "OK" =>
        /\ r.dhdr.kind = "hdr"
        /\ r.dhdr.h.fdcount = 1 /\ r.dhdr.h.dircount = 1
        /\ r.dhdr.h.delstack = <<>>
        /\ r.dhdr.h.fdpage = PageCount - 2 * UNFS_FILEPC
        /\ r.dent[PageCount - UNFS_FILEPC].kind = "entry"
        /\ r.dent[PageCount - UNFS_FILEPC].name = Root
        /\ r.dent[PageCount - UNFS_FILEPC].size = 0
        /\ r.dmap.bits = {DataPages - 2, DataPages - 1}

C23_FormatFresh == proc = "run" => Formatted(unfs_format(Cur))

\* C24: after every facade operation, for every address on the delete stack
\* the bitmap bits of the two pages of that slot are clear.
SlotBits(p) == {p - DataPage + k : k \in 0..(UNFS_FILEPC - 1)}

C24_DeletedClear ==
    (proc = "run" /\ hv) =>
        \A d \in 1..Len(hdr.delstack) : SlotBits(hdr.delstack[d]) \cap map = {}

\* C25: after every facade operation, fdcount in the header is the number of
\* nodes in the name index, the root included, and dircount is the number of
\* those nodes that are directories.
C25_Counts ==
    (proc = "run" /\ hv) =>
        /\ hdr.fdcount = Cardinality(tree)
        /\ hdr.dircount = Cardinality({i \in tree : heap[i].isdir})

\* C26: after a file has grown, by a resize or by a write beyond its size,
\* every byte of the added range not written since reads back as the fill
\* byte if the resize was given one and as zero otherwise.
C26_GrownBytes ==
    (rw.phase = "fill" /\ proc = "run") =>
        \A i \in tree : heap[i].name \in FillFiles =>
            /\ Len(rw.want[heap[i].name]) = heap[i].size
            /\ \A x \in 0..(heap[i].size - 1) :
                  rw.want[heap[i].name][x + 1] # DataByte =>
                      ReadByte(CurData, i, x) = rw.want[heap[i].name][x + 1]

\* C27: of two threads that concurrently create a file under the same
\* parent, which does not exist, one succeeds and the other receives
\* EINVAL or ENOENT.
C27_OneCreates ==
    (\A t \in Threads : th.at[t].pc = "done") =>
        \E t \in Threads :
            /\ th.at[t].ret = "OK"
            /\ \A u \in Threads \ {t} : th.at[u].ret \in {"EINVAL", "ENOENT"}

\* C28: every facade operation releases each I/O context it acquired exactly
\* once before it returns, on success and on every error path.
Count(tr, e) == Cardinality({k \in 1..Len(tr) : tr[k] = e})

ReleasedOnce(tr) ==
    /\ Count(tr, "alloc") = Count(tr, "free")
    /\ \A n \in 1..Len(tr) :
          Count(SubSeq(tr, 1, n), "free") <= Count(SubSeq(tr, 1, n), "alloc")

C28_IocReleased ==
    (proc = "run" /\ hv) =>
        \A src \in NameU, dst \in NameU, flag \in BOOLEAN :
            /\ ReleasedOnce(IocOfNodeCreate(Cur, src))
            /\ ReleasedOnce(IocOfRemove(Cur, src, flag))
            /\ ReleasedOnce(IocOfRename(Cur, src, dst, flag))

\* C29: no page buffer is obtained from an I/O context that has one
\* outstanding: every page_alloc on a context is followed by its page_free
\* before the next page_alloc on that context.
OneBuffer(tr) ==
    \A n \in 1..Len(tr) :
        Count(SubSeq(tr, 1, n), "alloc") - Count(SubSeq(tr, 1, n), "free") \in {0, 1}

C29_OneBuffer ==
    (proc = "run" /\ hv) =>
        \A name \in NameU, isdir \in BOOLEAN : OneBuffer(BufOfRemove(Cur, name, isdir))

\* C30: unfs_open called while the filesystem is open returns a handle and
\* leaves the header and the name index as they are; a close that is not
\* the last one releases nothing, so that the other handles keep working.
OpenedAgain(r) ==
    /\ Running(r) /\ r.ret = "OK" /\ r.hv
    /\ r.nopen = nopen + 1
    /\ r.hdr = hdr /\ r.map = map
    /\ r.tree = tree /\ r.heap = heap

ClosedOne(r) ==
    /\ r.ret = "OK" /\ r.hv
    /\ r.hdr = hdr /\ r.map = map
    /\ r.tree = tree /\ r.heap = heap

C30_OpenWhileOpen ==
    (proc = "run" /\ hv /\ nopen >= 1) =>
        /\ OpenedAgain(unfs_open(Cur))
        /\ nopen > 1 => ClosedOne(unfs_close(Cur))

\* C31: on a freshly formatted filesystem delmax + 1 files are created and
\* removed in creation order; the last remove takes the relocation path, and
\* afterwards, also after close and reopen, only the root exists, the header
\* is consistent and unfs_check returns 0.
RECURSIVE MadeFiles(_, _)
MadeFiles(S, k) ==
    IF k = 0 THEN S
    ELSE Norm(unfs_create(MadeFiles(S, k - 1), OwnName(k), FALSE, FALSE))

RECURSIVE GoneFiles(_, _, _)
GoneFiles(S, k, dev) ==
    IF k = 0 THEN S
    ELSE Norm(unfs_remove(GoneFiles(S, k - 1, dev), OwnName(k), FALSE, "stale", dev))

\* the state the last remove finds, and the one it leaves
BeforeLast(S, dev) == GoneFiles(MadeFiles(S, DelMax + 1), DelMax, dev)
AfterLast(S, dev) == GoneFiles(MadeFiles(S, DelMax + 1), DelMax + 1, dev)

SlotOf(S, name) == S.heap[unfs_node_find(S, name)].pageid

OnlyRoot(S) ==
    /\ Running(S) /\ S.hv
    /\ {S.heap[i].name : i \in S.tree} = {Root}
    /\ S.hdr.fdcount = 1 /\ S.hdr.dircount = 1
    /\ S.hdr = S.dhdr.h /\ ValidHeader(S.dhdr, S.dmap)

AllGone(S) ==
    /\ OnlyRoot(S)
    /\ OnlyRoot(unfs_open(Norm(unfs_close(S))))
    /\ unfs_check(Norm(unfs_close(S))).ret = "OK"

C31_Relocates ==
    Cur = Mounted =>
        \A dev \in {"raw", "unvme"} :
            /\ SlotOf(BeforeLast(Cur, dev), OwnName(DelMax + 1))
                    # BeforeLast(Cur, dev).hdr.fdpage + UNFS_FILEPC
            /\ Len(BeforeLast(Cur, dev).hdr.delstack) >= DelMax
            /\ AllGone(AfterLast(Cur, dev))

\* C31 as the code has it: the file removed last lies in the last entry
\* slot, so the remove frees that slot and raises fdpage; the delete stack
\* keeps the delmax slots pushed before.
C31_LastSlotFreed ==
    Cur = Mounted =>
        \A dev \in {"raw", "unvme"} :
            /\ SlotOf(BeforeLast(Cur, dev), OwnName(DelMax + 1))
                    = BeforeLast(Cur, dev).hdr.fdpage + UNFS_FILEPC
            /\ AfterLast(Cur, dev).hdr.fdpage
                    = BeforeLast(Cur, dev).hdr.fdpage + UNFS_FILEPC
            /\ Len(AfterLast(Cur, dev).hdr.delstack) = DelMax
            /\ AllGone(AfterLast(Cur, dev))

C31_Witness ==
    /\ Cur = Mounted
    /\ Cardinality(MadeFiles(Cur, DelMax + 1).tree) = DelMax + 2
    /\ AfterLast(Cur, "unvme").ret = "OK"

\* C32: a growth that needs pages, of a file that has UNFS_MAXDS segments,
\* leaves the file with exactly one segment of ceil(newsize / PAGESIZE)
\* pages, taken from pages that were free before the call; the bytes
\* [0, oldsize) of the file are unchanged and every page of the old
\* segments is free again.
BitsOf(pgs) == {p - DataPage : p \in pgs}

MergedInto(S, T, id, newsize) ==
    /\ Len(T.heap[id].ds) = 1
    /\ T.heap[id].ds[1].pagecount = PAGECOUNT(newsize)
    /\ T.heap[id].size = newsize
    /\ BitsOf(SegPages(T.heap[id].ds)) \cap S.map = {}
    /\ T.map = (S.map \ BitsOf(SegPages(S.heap[id].ds))) \cup BitsOf(SegPages(T.heap[id].ds))
    /\ \A x \in 0..(S.heap[id].size - 1) : ReadByte(T, id, x) = ReadByte(S, id, x)

MergeCalls ==
    {c \in [id : tree, newsize : Sizes, fill : BOOLEAN] :
        /\ heap[c.id].open > 0 /\ ~heap[c.id].isdir
        /\ Len(heap[c.id].ds) = MaxDS
        /\ PAGECOUNT(c.newsize) > PAGECOUNT(heap[c.id].size)}

RelocCalls(S) ==
    {c \in [name : {S.heap[i].name : i \in S.tree} \ {Root}, dev : {"raw", "unvme"}] :
        /\ S.heap[unfs_node_find(S, c.name)].open = 0
        /\ S.heap[unfs_node_find(S, c.name)].isdir => S.heap[unfs_node_find(S, c.name)].size = 0
        /\ Len(S.hdr.delstack) = DelMax
        /\ S.heap[unfs_node_find(S, c.name)].pageid # S.hdr.fdpage + UNFS_FILEPC}

\* the node whose entry lies in the last entry slot
LastNodes(S) == {i \in S.tree : S.heap[i].pageid = S.hdr.fdpage + UNFS_FILEPC}

Relocated(S, T, delpage) ==
    /\ Running(T)
    /\ T.hdr.fdpage = S.hdr.fdpage + UNFS_FILEPC
    /\ Len(T.hdr.delstack) = Len(S.hdr.delstack)
    /\ \A m \in LastNodes(S) :
          /\ m \in T.tree /\ T.heap[m].pageid = delpage
          /\ T.dent[delpage].kind = "entry"
          /\ T.dent[delpage].name = T.heap[m].name
          /\ T.dent[delpage].pageid = delpage
          /\ T.heap[m].isdir =>
                \A k \in T.tree :
                    T.heap[k].parent = m =>
                        /\ T.heap[k].parentid = delpage
                        /\ T.heap[k].pageid \in SlotPages
                        /\ T.dent[T.heap[k].pageid].kind = "entry"
                        /\ T.dent[T.heap[k].pageid].parentid = delpage

RelocatedBy(S, c) ==
    Relocated(S, unfs_remove(S, c.name, S.heap[unfs_node_find(S, c.name)].isdir,
                             "stale", c.dev),
              S.heap[unfs_node_find(S, c.name)].pageid)

\* three files and then the directory "/a" are created; the first file is
\* removed and its slot taken by the new file "/a/b"; the second file is
\* removed, which fills a delete stack of one entry.  The directory is the
\* last entry, its child lies above it, and a third file lies between.
RelocStart(S) ==
    LET S1 == Norm(unfs_create(S, NameB, FALSE, FALSE))
        S2 == Norm(unfs_create(S1, OwnName(2), FALSE, FALSE))
        S3 == Norm(unfs_create(S2, OwnName(3), FALSE, FALSE))
        S4 == Norm(unfs_create(S3, NameA, TRUE, FALSE))
        S5 == Norm(unfs_remove(S4, NameB, FALSE, "stale", "raw"))
        S6 == Norm(unfs_create(S5, NameAB, FALSE, FALSE))
    IN  Norm(unfs_remove(S6, OwnName(2), FALSE, "stale", "raw"))

C33_Relocation ==
    Cur = Mounted =>
        /\ \A c \in RelocCalls(Cur) : RelocatedBy(Cur, c)
        /\ \A c \in RelocCalls(RelocStart(Cur)) : RelocatedBy(RelocStart(Cur), c)

\* C34: a request for n contiguous pages returns the lowest-addressed run
\* of n consecutive free pages of the bitmap if there is one (no word
\* below the search hint has a free page), marks exactly those n pages,
\* and reports no space only if there is no such run.
FreeRuns(bits, n) ==
    {o \in 0..(DataPages - n) : (o..(o + n - 1)) \cap bits = {}}

LowestRun(bits, n) == CHOOSE o \in FreeRuns(bits, n) : \A q \in FreeRuns(bits, n) : o <= q

C34_FirstFit ==
    /\ proc = "run"
    /\ \A i \in 0..(MapSize - 1) : i < mnf => WordFull(map, i)
    /\ rw.phase = "alloc" =>
          IF FreeRuns(rw.old, rw.pc) = {}
          THEN rw.v = 0 /\ map = rw.old
          ELSE /\ rw.v = DataPage + LowestRun(rw.old, rw.pc)
               /\ map = rw.old \cup ((rw.v - DataPage)..(rw.v - DataPage + rw.pc - 1))

\* C35: after any sequence of create, remove and rename the entry slots
\* of the live nodes are pairwise distinct; the addresses on the delete
\* stack are pairwise distinct, each is a slot strictly above fdpage and
\* strictly below the root slot, and none is the slot of a live node; and
\* delcount is at most delmax.
SlotsApart(S) ==
    /\ \A i \in S.tree, j \in S.tree : i # j => S.heap[i].pageid # S.heap[j].pageid
    /\ \A d \in 1..Len(S.hdr.delstack), e \in 1..Len(S.hdr.delstack) :
          d # e => S.hdr.delstack[d] # S.hdr.delstack[e]
    /\ \A d \in 1..Len(S.hdr.delstack) :
          /\ S.hdr.delstack[d] \in SlotPages
          /\ S.hdr.delstack[d] > S.hdr.fdpage
          /\ S.hdr.delstack[d] < PageCount - UNFS_FILEPC
          /\ \A i \in S.tree : S.heap[i].pageid # S.hdr.delstack[d]
    /\ Len(S.hdr.delstack) <= DelMax

C35_SlotsApart == Sound => SlotsApart(Cur)

\* C36: after unfs_open the parent pointer of every node but the root is
\* not null and refers to the node named by the parent path of its name,
\* in whatever order the entries lie on the device, so that a later remove
\* of any node does what it would have done before the close.
ParentsLinked(S) ==
    \A i \in S.tree : S.heap[i].name # Root =>
        /\ S.heap[i].parent # NULL
        /\ S.heap[i].parent \in S.tree
        /\ S.heap[S.heap[i].parent].name = ParentName(S.heap[i].name)

\* the index and the device agree, and no file is open
InStep(S) ==
    /\ ParentsLinked(S) /\ SlotsApart(S)
    /\ S.hdr.fdcount = Cardinality(S.tree)
    /\ S.dhdr = [kind |-> "hdr", h |-> S.hdr] /\ ValidHeader(S.dhdr, S.dmap)
    /\ \A i \in S.tree :
          /\ S.heap[i].open = 0
          /\ S.heap[i].pageid \in SlotPages
          /\ S.dent[S.heap[i].pageid] = EntryOf(S.heap[i])
          /\ S.heap[i].name # Root =>
                /\ S.heap[i].parentid = S.heap[S.heap[i].parent].pageid
                /\ S.heap[S.heap[i].parent].isdir

C36_ParentsAfterOpen ==
    (Sound /\ nopen = 1 /\ InStep(Cur)) =>
        /\ ParentsLinked(Reopened)
        /\ \A name \in NameU, isdir \in BOOLEAN :
              /\ unfs_remove(Reopened, name, isdir, "stale", "raw").ret
                    = unfs_remove(Cur, name, isdir, "stale", "raw").ret
              /\ unfs_remove(Reopened, name, isdir, "stale", "raw").dhdr
                    = unfs_remove(Cur, name, isdir, "stale", "raw").dhdr

\* C37: the parent of every node but the root is a directory: create,
\* file_open with CREATE and rename place no node under a path that names
\* a regular file, and the size and the segments of a regular file are not
\* changed by the creation, removal or renaming of another node.
DirParents(S) ==
    \A i \in S.tree :
        (S.heap[i].name # Root /\ S.heap[i].parent \in S.tree) =>
            S.heap[S.heap[i].parent].isdir

\* the regular files of S other than those named in names are in T as in S
FilesKept(S, T, names) ==
    Running(T) =>
        \A i \in S.tree :
            (~S.heap[i].isdir /\ S.heap[i].name \notin names /\ i \in T.tree) =>
                /\ T.heap[i].size = S.heap[i].size
                /\ T.heap[i].ds = S.heap[i].ds

C37_DirParents ==
    (Sound /\ InStep(Cur)) =>
        /\ \A name \in NameU, isdir \in BOOLEAN :
              /\ DirParents(unfs_create(Cur, name, isdir, FALSE))
              /\ FilesKept(Cur, unfs_create(Cur, name, isdir, FALSE), {name})
              /\ FilesKept(Cur, unfs_remove(Cur, name, isdir, "stale", "raw"), {name})
        /\ \A name \in NameU :
              /\ DirParents(unfs_file_open(Cur, name, UNFS_OPEN_CREATE))
              /\ FilesKept(Cur, unfs_file_open(Cur, name, UNFS_OPEN_CREATE), {name})
        /\ \A src \in NameU, dst \in NameU :
              /\ DirParents(unfs_rename(Cur, src, dst, FALSE, "stale", "raw", FALSE))
              /\ FilesKept(Cur, unfs_rename(Cur, src, dst, FALSE, "stale", "raw", FALSE),
                           {src, dst})

\* C38: unfs_open fails with the bad-header result if, after all fdcount
\* entries were scanned, a placeholder parent directory (made with pageid
\* 0 because a child was read first) was not filled in from an entry of
\* the device.
Placeholders(S) == {i \in S.tree : S.heap[i].isdir /\ S.heap[i].pageid = 0}

C38_Placeholders == (proc = "run" /\ hv) => Placeholders(Cur) = {}

\* C39: a shrink from oldsize to newsize frees exactly the last
\* ceil(oldsize / PAGESIZE) - ceil(newsize / PAGESIZE) pages of the page
\* sequence of the file and no others: the segments left cover exactly the
\* first ceil(newsize / PAGESIZE) pages in the same order, no segment is
\* left empty, and the bytes [0, newsize) are unchanged.
TailPages(S, id, newsize) ==
    {PageAt(S.heap[id].ds, k) : k \in PAGECOUNT(newsize)..(PAGECOUNT(S.heap[id].size) - 1)}

ShrunkTo(S, T, id, newsize) ==
    /\ Running(T)
    /\ T.heap[id].size = newsize
    /\ T.map = S.map \ BitsOf(TailPages(S, id, newsize))
    /\ T.hdr.mapuse = S.hdr.mapuse - Cardinality(TailPages(S, id, newsize))
    /\ TotalPages(T.heap[id].ds) = PAGECOUNT(newsize)
    /\ \A k \in 0..(PAGECOUNT(newsize) - 1) :
          PageAt(T.heap[id].ds, k) = PageAt(S.heap[id].ds, k)
    /\ \A d \in 1..Len(T.heap[id].ds) : T.heap[id].ds[d].pagecount > 0
    /\ Len(T.heap[id].ds) <= Len(S.heap[id].ds)
    /\ \A x \in 0..(newsize - 1) : ReadByte(T, id, x) = ReadByte(S, id, x)
    /\ T.dent[T.heap[id].pageid] = EntryOf(T.heap[id])

ShrinkCalls ==
    {c \in [id : tree, newsize : Sizes, fill : BOOLEAN] :
        /\ heap[c.id].open > 0 /\ ~heap[c.id].isdir
        /\ c.newsize < heap[c.id].size}

\* the state with the bytes of the data pages, where they are followed
CurBytes ==
    Cur @@ [data |-> IF "data" \in DOMAIN rw THEN rw.data
                     ELSE [p \in DataPage..(PageCount - 1) |-> [j \in 1..PageSize |-> 0]]]

C39_Shrink ==
    (proc = "run" /\ hv /\ clean) =>
        \A c \in ShrinkCalls :
            ShrunkTo(CurBytes, unfs_node_resize(CurBytes, c.id, c.newsize, c.fill).s,
                     c.id, c.newsize)

\* C40: unfs_file_read and unfs_file_write touch no page outside the
\* segments of the file: for every offset and length whose sum is more
\* than the size of the file, also when offset + len wraps around as a
\* 64-bit sum, unfs_file_read returns an error and reads nothing, and
\* unfs_file_write grows the file to cover the range or returns an error.
Offsets == Sizes \cup {U64 - PageSize, U64 - 1}

BeyondCalls ==
    {c \in [id : tree, offset : Offsets, len : Sizes] :
        /\ heap[c.id].open > 0 /\ ~heap[c.id].isdir
        /\ TotalPages(heap[c.id].ds) = PAGECOUNT(heap[c.id].size)
        /\ c.offset + c.len > heap[c.id].size}

ReadRefused(S, T) == T = Ret(S, "EINVAL")

WriteCovered(T, id, offset, len) ==
    /\ Running(T)
    /\ T.ret = "OK" =>
          /\ T.heap[id].size >= offset + len
          /\ RwPages(T.heap[id].ds, offset, len) \subseteq SegPages(T.heap[id].ds)

C40_InsideSegments ==
    (proc = "run" /\ hv /\ clean) =>
        \A c \in BeyondCalls, ub \in {"fault", "stale"} :
            /\ ReadRefused(Cur, unfs_file_read(Cur, c.id, c.offset, c.len, ub))
            /\ WriteCovered(unfs_file_write(Cur, c.id, c.offset, c.len, ub),
                            c.id, c.offset, c.len)

====
